---- MODULE Spec2Model ----
(***************************************************************************)
(* A model of calendar-sync: source rows (CSV file, Coda table) are mapped  *)
(* to CalendarEvents, filtered and sorted, and then either projected into   *)
(* Google Calendar wire events and created, or matched against the paged    *)
(* listing of the remote calendar and deleted.                              *)
(*                                                                         *)
(* Conventions of the model:                                                *)
(*   - a Rust char is its code point (its Unicode scalar value) and a Rust  *)
(*     String is the sequence of its chars; Str(<<"a", "b">>) writes one    *)
(*     by its ASCII characters and Ch("a") one char;                        *)
(*   - a Rust Option<T> is a sequence of length 0 (None) or 1 (Some(x));    *)
(*   - a NaiveDate is a record [y, m, d]; a NaiveTime is a record           *)
(*     [secs, frac]: seconds since midnight and nanoseconds, frac from      *)
(*     1000000000 on within a leap second;                                  *)
(*   - a NaiveDateTime is a record [date, time], and a DateTime<Utc> is     *)
(*     the NaiveDateTime of the instant in UTC;                             *)
(*   - a string the program never takes apart (an event id, a page token,   *)
(*     a time zone name) is kept as a TLA+ string.                          *)
(***************************************************************************)
EXTENDS Integers, Sequences, FiniteSets, TLC

VARIABLES
    pc,               \* position of the run (see the actions)
    cli,              \* the parsed command line: command and flags
    rows,             \* the source rows read so far, in order
    all_events,       \* events mapped from the rows (parse_csv / fetch_events)
    events,           \* the filtered and sorted events (filter_events)
    coda_token,       \* fetch_events: page_token of the Coda row listing
    page_token,       \* find_matching_events: page_token
    all_gcal_events,  \* find_matching_events: all_gcal_events
    fetch_log,        \* the list requests issued and the pages they returned
    matches,          \* find_matching_events: matches
    insert_calls,     \* the insert calls issued, in order: the event and the result
    delete_calls,     \* the delete calls issued, in order: the id and the result
    outcome           \* how the run ended: "" while running, then Ok / Err / Panic

vars == <<pc, cli, rows, all_events, events, coda_token, page_token,
          all_gcal_events, fetch_log, matches, insert_calls, delete_calls, outcome>>

----------------------------------------------------------------------------
(* Option<T> *)

None == <<>>

Some(x) == <<x>>

IsSome(o) == Len(o) = 1

IsNone(o) == Len(o) = 0

\* F applied to the value of e: a local binding whose value is computed once
Let(e, F(_)) == CHOOSE y \in {F(x) : x \in {e}} : TRUE

----------------------------------------------------------------------------
(* Strings: sequences of characters, a character being its code point *)

\* the place of c in the table, 0 when it is not there
IndexIn(c, table) ==
    IF \E i \in 1..Len(table) : table[i] = c
    THEN CHOOSE i \in 1..Len(table) : table[i] = c
    ELSE 0

\* the printable characters of ASCII in code point order, from the space
\* (32) to the tilde (126); the place of the grave accent (96), which a
\* string literal of this module cannot hold, is left empty
AsciiChars ==
    << " ", "!", "\"", "#", "$", "%", "&", "'", "(", ")", "*", "+", ",", "-", ".", "/",
       "0", "1", "2", "3", "4", "5", "6", "7", "8", "9", ":", ";", "<", "=", ">", "?",
       "@", "A", "B", "C", "D", "E", "F", "G", "H", "I", "J", "K", "L", "M", "N", "O",
       "P", "Q", "R", "S", "T", "U", "V", "W", "X", "Y", "Z", "[", "\\", "]", "^", "_",
       "", "a", "b", "c", "d", "e", "f", "g", "h", "i", "j", "k", "l", "m", "n", "o",
       "p", "q", "r", "s", "t", "u", "v", "w", "x", "y", "z", "{", "|", "}", "~" >>

\* the character written c: its code point
Ch(c) == 31 + IndexIn(c, AsciiChars)

\* the string written as the list s of its characters
Str(s) == [i \in 1..Len(s) |-> Ch(s[i])]

\* The tables below are those of the Unicode character database that
\* Rust's char and str methods read (core::unicode, Unicode 17.0), over
\* every character, written as code points in hexadecimal.

\* the characters char::to_lowercase changes (the keys of LOWERCASE_TABLE),
\* in code point order
UpperChars ==
    << \h0041, \h0042, \h0043, \h0044, \h0045, \h0046, \h0047, \h0048, \h0049, \h004A,
       \h004B, \h004C, \h004D, \h004E, \h004F, \h0050, \h0051, \h0052, \h0053, \h0054,
       \h0055, \h0056, \h0057, \h0058, \h0059, \h005A, \h00C0, \h00C1, \h00C2, \h00C3,
       \h00C4, \h00C5, \h00C6, \h00C7, \h00C8, \h00C9, \h00CA, \h00CB, \h00CC, \h00CD,
       \h00CE, \h00CF, \h00D0, \h00D1, \h00D2, \h00D3, \h00D4, \h00D5, \h00D6, \h00D8,
       \h00D9, \h00DA, \h00DB, \h00DC, \h00DD, \h00DE, \h0100, \h0102, \h0104, \h0106,
       \h0108, \h010A, \h010C, \h010E, \h0110, \h0112, \h0114, \h0116, \h0118, \h011A,
       \h011C, \h011E, \h0120, \h0122, \h0124, \h0126, \h0128, \h012A, \h012C, \h012E,
       \h0130, \h0132, \h0134, \h0136, \h0139, \h013B, \h013D, \h013F, \h0141, \h0143,
       \h0145, \h0147, \h014A, \h014C, \h014E, \h0150, \h0152, \h0154, \h0156, \h0158,
       \h015A, \h015C, \h015E, \h0160, \h0162, \h0164, \h0166, \h0168, \h016A, \h016C,
       \h016E, \h0170, \h0172, \h0174, \h0176, \h0178, \h0179, \h017B, \h017D, \h0181,
       \h0182, \h0184, \h0186, \h0187, \h0189, \h018A, \h018B, \h018E, \h018F, \h0190,
       \h0191, \h0193, \h0194, \h0196, \h0197, \h0198, \h019C, \h019D, \h019F, \h01A0,
       \h01A2, \h01A4, \h01A6, \h01A7, \h01A9, \h01AC, \h01AE, \h01AF, \h01B1, \h01B2,
       \h01B3, \h01B5, \h01B7, \h01B8, \h01BC, \h01C4, \h01C5, \h01C7, \h01C8, \h01CA,
       \h01CB, \h01CD, \h01CF, \h01D1, \h01D3, \h01D5, \h01D7, \h01D9, \h01DB, \h01DE,
       \h01E0, \h01E2, \h01E4, \h01E6, \h01E8, \h01EA, \h01EC, \h01EE, \h01F1, \h01F2,
       \h01F4, \h01F6, \h01F7, \h01F8, \h01FA, \h01FC, \h01FE, \h0200, \h0202, \h0204,
       \h0206, \h0208, \h020A, \h020C, \h020E, \h0210, \h0212, \h0214, \h0216, \h0218,
       \h021A, \h021C, \h021E, \h0220, \h0222, \h0224, \h0226, \h0228, \h022A, \h022C,
       \h022E, \h0230, \h0232, \h023A, \h023B, \h023D, \h023E, \h0241, \h0243, \h0244,
       \h0245, \h0246, \h0248, \h024A, \h024C, \h024E, \h0370, \h0372, \h0376, \h037F,
       \h0386, \h0388, \h0389, \h038A, \h038C, \h038E, \h038F, \h0391, \h0392, \h0393,
       \h0394, \h0395, \h0396, \h0397, \h0398, \h0399, \h039A, \h039B, \h039C, \h039D,
       \h039E, \h039F, \h03A0, \h03A1, \h03A3, \h03A4, \h03A5, \h03A6, \h03A7, \h03A8,
       \h03A9, \h03AA, \h03AB, \h03CF, \h03D8, \h03DA, \h03DC, \h03DE, \h03E0, \h03E2,
       \h03E4, \h03E6, \h03E8, \h03EA, \h03EC, \h03EE, \h03F4, \h03F7, \h03F9, \h03FA,
       \h03FD, \h03FE, \h03FF, \h0400, \h0401, \h0402, \h0403, \h0404, \h0405, \h0406,
       \h0407, \h0408, \h0409, \h040A, \h040B, \h040C, \h040D, \h040E, \h040F, \h0410,
       \h0411, \h0412, \h0413, \h0414, \h0415, \h0416, \h0417, \h0418, \h0419, \h041A,
       \h041B, \h041C, \h041D, \h041E, \h041F, \h0420, \h0421, \h0422, \h0423, \h0424,
       \h0425, \h0426, \h0427, \h0428, \h0429, \h042A, \h042B, \h042C, \h042D, \h042E,
       \h042F, \h0460, \h0462, \h0464, \h0466, \h0468, \h046A, \h046C, \h046E, \h0470,
       \h0472, \h0474, \h0476, \h0478, \h047A, \h047C, \h047E, \h0480, \h048A, \h048C,
       \h048E, \h0490, \h0492, \h0494, \h0496, \h0498, \h049A, \h049C, \h049E, \h04A0,
       \h04A2, \h04A4, \h04A6, \h04A8, \h04AA, \h04AC, \h04AE, \h04B0, \h04B2, \h04B4,
       \h04B6, \h04B8, \h04BA, \h04BC, \h04BE, \h04C0, \h04C1, \h04C3, \h04C5, \h04C7,
       \h04C9, \h04CB, \h04CD, \h04D0, \h04D2, \h04D4, \h04D6, \h04D8, \h04DA, \h04DC,
       \h04DE, \h04E0, \h04E2, \h04E4, \h04E6, \h04E8, \h04EA, \h04EC, \h04EE, \h04F0,
       \h04F2, \h04F4, \h04F6, \h04F8, \h04FA, \h04FC, \h04FE, \h0500, \h0502, \h0504,
       \h0506, \h0508, \h050A, \h050C, \h050E, \h0510, \h0512, \h0514, \h0516, \h0518,
       \h051A, \h051C, \h051E, \h0520, \h0522, \h0524, \h0526, \h0528, \h052A, \h052C,
       \h052E, \h0531, \h0532, \h0533, \h0534, \h0535, \h0536, \h0537, \h0538, \h0539,
       \h053A, \h053B, \h053C, \h053D, \h053E, \h053F, \h0540, \h0541, \h0542, \h0543,
       \h0544, \h0545, \h0546, \h0547, \h0548, \h0549, \h054A, \h054B, \h054C, \h054D,
       \h054E, \h054F, \h0550, \h0551, \h0552, \h0553, \h0554, \h0555, \h0556, \h10A0,
       \h10A1, \h10A2, \h10A3, \h10A4, \h10A5, \h10A6, \h10A7, \h10A8, \h10A9, \h10AA,
       \h10AB, \h10AC, \h10AD, \h10AE, \h10AF, \h10B0, \h10B1, \h10B2, \h10B3, \h10B4,
       \h10B5, \h10B6, \h10B7, \h10B8, \h10B9, \h10BA, \h10BB, \h10BC, \h10BD, \h10BE,
       \h10BF, \h10C0, \h10C1, \h10C2, \h10C3, \h10C4, \h10C5, \h10C7, \h10CD, \h13A0,
       \h13A1, \h13A2, \h13A3, \h13A4, \h13A5, \h13A6, \h13A7, \h13A8, \h13A9, \h13AA,
       \h13AB, \h13AC, \h13AD, \h13AE, \h13AF, \h13B0, \h13B1, \h13B2, \h13B3, \h13B4,
       \h13B5, \h13B6, \h13B7, \h13B8, \h13B9, \h13BA, \h13BB, \h13BC, \h13BD, \h13BE,
       \h13BF, \h13C0, \h13C1, \h13C2, \h13C3, \h13C4, \h13C5, \h13C6, \h13C7, \h13C8,
       \h13C9, \h13CA, \h13CB, \h13CC, \h13CD, \h13CE, \h13CF, \h13D0, \h13D1, \h13D2,
       \h13D3, \h13D4, \h13D5, \h13D6, \h13D7, \h13D8, \h13D9, \h13DA, \h13DB, \h13DC,
       \h13DD, \h13DE, \h13DF, \h13E0, \h13E1, \h13E2, \h13E3, \h13E4, \h13E5, \h13E6,
       \h13E7, \h13E8, \h13E9, \h13EA, \h13EB, \h13EC, \h13ED, \h13EE, \h13EF, \h13F0,
       \h13F1, \h13F2, \h13F3, \h13F4, \h13F5, \h1C89, \h1C90, \h1C91, \h1C92, \h1C93,
       \h1C94, \h1C95, \h1C96, \h1C97, \h1C98, \h1C99, \h1C9A, \h1C9B, \h1C9C, \h1C9D,
       \h1C9E, \h1C9F, \h1CA0, \h1CA1, \h1CA2, \h1CA3, \h1CA4, \h1CA5, \h1CA6, \h1CA7,
       \h1CA8, \h1CA9, \h1CAA, \h1CAB, \h1CAC, \h1CAD, \h1CAE, \h1CAF, \h1CB0, \h1CB1,
       \h1CB2, \h1CB3, \h1CB4, \h1CB5, \h1CB6, \h1CB7, \h1CB8, \h1CB9, \h1CBA, \h1CBD,
       \h1CBE, \h1CBF, \h1E00, \h1E02, \h1E04, \h1E06, \h1E08, \h1E0A, \h1E0C, \h1E0E,
       \h1E10, \h1E12, \h1E14, \h1E16, \h1E18, \h1E1A, \h1E1C, \h1E1E, \h1E20, \h1E22,
       \h1E24, \h1E26, \h1E28, \h1E2A, \h1E2C, \h1E2E, \h1E30, \h1E32, \h1E34, \h1E36,
       \h1E38, \h1E3A, \h1E3C, \h1E3E, \h1E40, \h1E42, \h1E44, \h1E46, \h1E48, \h1E4A,
       \h1E4C, \h1E4E, \h1E50, \h1E52, \h1E54, \h1E56, \h1E58, \h1E5A, \h1E5C, \h1E5E,
       \h1E60, \h1E62, \h1E64, \h1E66, \h1E68, \h1E6A, \h1E6C, \h1E6E, \h1E70, \h1E72,
       \h1E74, \h1E76, \h1E78, \h1E7A, \h1E7C, \h1E7E, \h1E80, \h1E82, \h1E84, \h1E86,
       \h1E88, \h1E8A, \h1E8C, \h1E8E, \h1E90, \h1E92, \h1E94, \h1E9E, \h1EA0, \h1EA2,
       \h1EA4, \h1EA6, \h1EA8, \h1EAA, \h1EAC, \h1EAE, \h1EB0, \h1EB2, \h1EB4, \h1EB6,
       \h1EB8, \h1EBA, \h1EBC, \h1EBE, \h1EC0, \h1EC2, \h1EC4, \h1EC6, \h1EC8, \h1ECA,
       \h1ECC, \h1ECE, \h1ED0, \h1ED2, \h1ED4, \h1ED6, \h1ED8, \h1EDA, \h1EDC, \h1EDE,
       \h1EE0, \h1EE2, \h1EE4, \h1EE6, \h1EE8, \h1EEA, \h1EEC, \h1EEE, \h1EF0, \h1EF2,
       \h1EF4, \h1EF6, \h1EF8, \h1EFA, \h1EFC, \h1EFE, \h1F08, \h1F09, \h1F0A, \h1F0B,
       \h1F0C, \h1F0D, \h1F0E, \h1F0F, \h1F18, \h1F19, \h1F1A, \h1F1B, \h1F1C, \h1F1D,
       \h1F28, \h1F29, \h1F2A, \h1F2B, \h1F2C, \h1F2D, \h1F2E, \h1F2F, \h1F38, \h1F39,
       \h1F3A, \h1F3B, \h1F3C, \h1F3D, \h1F3E, \h1F3F, \h1F48, \h1F49, \h1F4A, \h1F4B,
       \h1F4C, \h1F4D, \h1F59, \h1F5B, \h1F5D, \h1F5F, \h1F68, \h1F69, \h1F6A, \h1F6B,
       \h1F6C, \h1F6D, \h1F6E, \h1F6F, \h1F88, \h1F89, \h1F8A, \h1F8B, \h1F8C, \h1F8D,
       \h1F8E, \h1F8F, \h1F98, \h1F99, \h1F9A, \h1F9B, \h1F9C, \h1F9D, \h1F9E, \h1F9F,
       \h1FA8, \h1FA9, \h1FAA, \h1FAB, \h1FAC, \h1FAD, \h1FAE, \h1FAF, \h1FB8, \h1FB9,
       \h1FBA, \h1FBB, \h1FBC, \h1FC8, \h1FC9, \h1FCA, \h1FCB, \h1FCC, \h1FD8, \h1FD9,
       \h1FDA, \h1FDB, \h1FE8, \h1FE9, \h1FEA, \h1FEB, \h1FEC, \h1FF8, \h1FF9, \h1FFA,
       \h1FFB, \h1FFC, \h2126, \h212A, \h212B, \h2132, \h2160, \h2161, \h2162, \h2163,
       \h2164, \h2165, \h2166, \h2167, \h2168, \h2169, \h216A, \h216B, \h216C, \h216D,
       \h216E, \h216F, \h2183, \h24B6, \h24B7, \h24B8, \h24B9, \h24BA, \h24BB, \h24BC,
       \h24BD, \h24BE, \h24BF, \h24C0, \h24C1, \h24C2, \h24C3, \h24C4, \h24C5, \h24C6,
       \h24C7, \h24C8, \h24C9, \h24CA, \h24CB, \h24CC, \h24CD, \h24CE, \h24CF, \h2C00,
       \h2C01, \h2C02, \h2C03, \h2C04, \h2C05, \h2C06, \h2C07, \h2C08, \h2C09, \h2C0A,
       \h2C0B, \h2C0C, \h2C0D, \h2C0E, \h2C0F, \h2C10, \h2C11, \h2C12, \h2C13, \h2C14,
       \h2C15, \h2C16, \h2C17, \h2C18, \h2C19, \h2C1A, \h2C1B, \h2C1C, \h2C1D, \h2C1E,
       \h2C1F, \h2C20, \h2C21, \h2C22, \h2C23, \h2C24, \h2C25, \h2C26, \h2C27, \h2C28,
       \h2C29, \h2C2A, \h2C2B, \h2C2C, \h2C2D, \h2C2E, \h2C2F, \h2C60, \h2C62, \h2C63,
       \h2C64, \h2C67, \h2C69, \h2C6B, \h2C6D, \h2C6E, \h2C6F, \h2C70, \h2C72, \h2C75,
       \h2C7E, \h2C7F, \h2C80, \h2C82, \h2C84, \h2C86, \h2C88, \h2C8A, \h2C8C, \h2C8E,
       \h2C90, \h2C92, \h2C94, \h2C96, \h2C98, \h2C9A, \h2C9C, \h2C9E, \h2CA0, \h2CA2,
       \h2CA4, \h2CA6, \h2CA8, \h2CAA, \h2CAC, \h2CAE, \h2CB0, \h2CB2, \h2CB4, \h2CB6,
       \h2CB8, \h2CBA, \h2CBC, \h2CBE, \h2CC0, \h2CC2, \h2CC4, \h2CC6, \h2CC8, \h2CCA,
       \h2CCC, \h2CCE, \h2CD0, \h2CD2, \h2CD4, \h2CD6, \h2CD8, \h2CDA, \h2CDC, \h2CDE,
       \h2CE0, \h2CE2, \h2CEB, \h2CED, \h2CF2, \hA640, \hA642, \hA644, \hA646, \hA648,
       \hA64A, \hA64C, \hA64E, \hA650, \hA652, \hA654, \hA656, \hA658, \hA65A, \hA65C,
       \hA65E, \hA660, \hA662, \hA664, \hA666, \hA668, \hA66A, \hA66C, \hA680, \hA682,
       \hA684, \hA686, \hA688, \hA68A, \hA68C, \hA68E, \hA690, \hA692, \hA694, \hA696,
       \hA698, \hA69A, \hA722, \hA724, \hA726, \hA728, \hA72A, \hA72C, \hA72E, \hA732,
       \hA734, \hA736, \hA738, \hA73A, \hA73C, \hA73E, \hA740, \hA742, \hA744, \hA746,
       \hA748, \hA74A, \hA74C, \hA74E, \hA750, \hA752, \hA754, \hA756, \hA758, \hA75A,
       \hA75C, \hA75E, \hA760, \hA762, \hA764, \hA766, \hA768, \hA76A, \hA76C, \hA76E,
       \hA779, \hA77B, \hA77D, \hA77E, \hA780, \hA782, \hA784, \hA786, \hA78B, \hA78D,
       \hA790, \hA792, \hA796, \hA798, \hA79A, \hA79C, \hA79E, \hA7A0, \hA7A2, \hA7A4,
       \hA7A6, \hA7A8, \hA7AA, \hA7AB, \hA7AC, \hA7AD, \hA7AE, \hA7B0, \hA7B1, \hA7B2,
       \hA7B3, \hA7B4, \hA7B6, \hA7B8, \hA7BA, \hA7BC, \hA7BE, \hA7C0, \hA7C2, \hA7C4,
       \hA7C5, \hA7C6, \hA7C7, \hA7C9, \hA7CB, \hA7CC, \hA7CE, \hA7D0, \hA7D2, \hA7D4,
       \hA7D6, \hA7D8, \hA7DA, \hA7DC, \hA7F5, \hFF21, \hFF22, \hFF23, \hFF24, \hFF25,
       \hFF26, \hFF27, \hFF28, \hFF29, \hFF2A, \hFF2B, \hFF2C, \hFF2D, \hFF2E, \hFF2F,
       \hFF30, \hFF31, \hFF32, \hFF33, \hFF34, \hFF35, \hFF36, \hFF37, \hFF38, \hFF39,
       \hFF3A, \h10400, \h10401, \h10402, \h10403, \h10404, \h10405, \h10406, \h10407, \h10408,
       \h10409, \h1040A, \h1040B, \h1040C, \h1040D, \h1040E, \h1040F, \h10410, \h10411, \h10412,
       \h10413, \h10414, \h10415, \h10416, \h10417, \h10418, \h10419, \h1041A, \h1041B, \h1041C,
       \h1041D, \h1041E, \h1041F, \h10420, \h10421, \h10422, \h10423, \h10424, \h10425, \h10426,
       \h10427, \h104B0, \h104B1, \h104B2, \h104B3, \h104B4, \h104B5, \h104B6, \h104B7, \h104B8,
       \h104B9, \h104BA, \h104BB, \h104BC, \h104BD, \h104BE, \h104BF, \h104C0, \h104C1, \h104C2,
       \h104C3, \h104C4, \h104C5, \h104C6, \h104C7, \h104C8, \h104C9, \h104CA, \h104CB, \h104CC,
       \h104CD, \h104CE, \h104CF, \h104D0, \h104D1, \h104D2, \h104D3, \h10570, \h10571, \h10572,
       \h10573, \h10574, \h10575, \h10576, \h10577, \h10578, \h10579, \h1057A, \h1057C, \h1057D,
       \h1057E, \h1057F, \h10580, \h10581, \h10582, \h10583, \h10584, \h10585, \h10586, \h10587,
       \h10588, \h10589, \h1058A, \h1058C, \h1058D, \h1058E, \h1058F, \h10590, \h10591, \h10592,
       \h10594, \h10595, \h10C80, \h10C81, \h10C82, \h10C83, \h10C84, \h10C85, \h10C86, \h10C87,
       \h10C88, \h10C89, \h10C8A, \h10C8B, \h10C8C, \h10C8D, \h10C8E, \h10C8F, \h10C90, \h10C91,
       \h10C92, \h10C93, \h10C94, \h10C95, \h10C96, \h10C97, \h10C98, \h10C99, \h10C9A, \h10C9B,
       \h10C9C, \h10C9D, \h10C9E, \h10C9F, \h10CA0, \h10CA1, \h10CA2, \h10CA3, \h10CA4, \h10CA5,
       \h10CA6, \h10CA7, \h10CA8, \h10CA9, \h10CAA, \h10CAB, \h10CAC, \h10CAD, \h10CAE, \h10CAF,
       \h10CB0, \h10CB1, \h10CB2, \h10D50, \h10D51, \h10D52, \h10D53, \h10D54, \h10D55, \h10D56,
       \h10D57, \h10D58, \h10D59, \h10D5A, \h10D5B, \h10D5C, \h10D5D, \h10D5E, \h10D5F, \h10D60,
       \h10D61, \h10D62, \h10D63, \h10D64, \h10D65, \h118A0, \h118A1, \h118A2, \h118A3, \h118A4,
       \h118A5, \h118A6, \h118A7, \h118A8, \h118A9, \h118AA, \h118AB, \h118AC, \h118AD, \h118AE,
       \h118AF, \h118B0, \h118B1, \h118B2, \h118B3, \h118B4, \h118B5, \h118B6, \h118B7, \h118B8,
       \h118B9, \h118BA, \h118BB, \h118BC, \h118BD, \h118BE, \h118BF, \h16E40, \h16E41, \h16E42,
       \h16E43, \h16E44, \h16E45, \h16E46, \h16E47, \h16E48, \h16E49, \h16E4A, \h16E4B, \h16E4C,
       \h16E4D, \h16E4E, \h16E4F, \h16E50, \h16E51, \h16E52, \h16E53, \h16E54, \h16E55, \h16E56,
       \h16E57, \h16E58, \h16E59, \h16E5A, \h16E5B, \h16E5C, \h16E5D, \h16E5E, \h16E5F, \h16EA0,
       \h16EA1, \h16EA2, \h16EA3, \h16EA4, \h16EA5, \h16EA6, \h16EA7, \h16EA8, \h16EA9, \h16EAA,
       \h16EAB, \h16EAC, \h16EAD, \h16EAE, \h16EAF, \h16EB0, \h16EB1, \h16EB2, \h16EB3, \h16EB4,
       \h16EB5, \h16EB6, \h16EB7, \h16EB8, \h1E900, \h1E901, \h1E902, \h1E903, \h1E904, \h1E905,
       \h1E906, \h1E907, \h1E908, \h1E909, \h1E90A, \h1E90B, \h1E90C, \h1E90D, \h1E90E, \h1E90F,
       \h1E910, \h1E911, \h1E912, \h1E913, \h1E914, \h1E915, \h1E916, \h1E917, \h1E918, \h1E919,
       \h1E91A, \h1E91B, \h1E91C, \h1E91D, \h1E91E, \h1E91F, \h1E920, \h1E921 >>

\* what char::to_lowercase gives for each of them, in the same order
LoweredChars ==
    << <<\h0061>>, <<\h0062>>, <<\h0063>>, <<\h0064>>, <<\h0065>>, <<\h0066>>, <<\h0067>>,
       <<\h0068>>, <<\h0069>>, <<\h006A>>, <<\h006B>>, <<\h006C>>, <<\h006D>>, <<\h006E>>,
       <<\h006F>>, <<\h0070>>, <<\h0071>>, <<\h0072>>, <<\h0073>>, <<\h0074>>, <<\h0075>>,
       <<\h0076>>, <<\h0077>>, <<\h0078>>, <<\h0079>>, <<\h007A>>, <<\h00E0>>, <<\h00E1>>,
       <<\h00E2>>, <<\h00E3>>, <<\h00E4>>, <<\h00E5>>, <<\h00E6>>, <<\h00E7>>, <<\h00E8>>,
       <<\h00E9>>, <<\h00EA>>, <<\h00EB>>, <<\h00EC>>, <<\h00ED>>, <<\h00EE>>, <<\h00EF>>,
       <<\h00F0>>, <<\h00F1>>, <<\h00F2>>, <<\h00F3>>, <<\h00F4>>, <<\h00F5>>, <<\h00F6>>,
       <<\h00F8>>, <<\h00F9>>, <<\h00FA>>, <<\h00FB>>, <<\h00FC>>, <<\h00FD>>, <<\h00FE>>,
       <<\h0101>>, <<\h0103>>, <<\h0105>>, <<\h0107>>, <<\h0109>>, <<\h010B>>, <<\h010D>>,
       <<\h010F>>, <<\h0111>>, <<\h0113>>, <<\h0115>>, <<\h0117>>, <<\h0119>>, <<\h011B>>,
       <<\h011D>>, <<\h011F>>, <<\h0121>>, <<\h0123>>, <<\h0125>>, <<\h0127>>, <<\h0129>>,
       <<\h012B>>, <<\h012D>>, <<\h012F>>, <<\h0069, \h0307>>, <<\h0133>>, <<\h0135>>, <<\h0137>>,
       <<\h013A>>, <<\h013C>>, <<\h013E>>, <<\h0140>>, <<\h0142>>, <<\h0144>>, <<\h0146>>,
       <<\h0148>>, <<\h014B>>, <<\h014D>>, <<\h014F>>, <<\h0151>>, <<\h0153>>, <<\h0155>>,
       <<\h0157>>, <<\h0159>>, <<\h015B>>, <<\h015D>>, <<\h015F>>, <<\h0161>>, <<\h0163>>,
       <<\h0165>>, <<\h0167>>, <<\h0169>>, <<\h016B>>, <<\h016D>>, <<\h016F>>, <<\h0171>>,
       <<\h0173>>, <<\h0175>>, <<\h0177>>, <<\h00FF>>, <<\h017A>>, <<\h017C>>, <<\h017E>>,
       <<\h0253>>, <<\h0183>>, <<\h0185>>, <<\h0254>>, <<\h0188>>, <<\h0256>>, <<\h0257>>,
       <<\h018C>>, <<\h01DD>>, <<\h0259>>, <<\h025B>>, <<\h0192>>, <<\h0260>>, <<\h0263>>,
       <<\h0269>>, <<\h0268>>, <<\h0199>>, <<\h026F>>, <<\h0272>>, <<\h0275>>, <<\h01A1>>,
       <<\h01A3>>, <<\h01A5>>, <<\h0280>>, <<\h01A8>>, <<\h0283>>, <<\h01AD>>, <<\h0288>>,
       <<\h01B0>>, <<\h028A>>, <<\h028B>>, <<\h01B4>>, <<\h01B6>>, <<\h0292>>, <<\h01B9>>,
       <<\h01BD>>, <<\h01C6>>, <<\h01C6>>, <<\h01C9>>, <<\h01C9>>, <<\h01CC>>, <<\h01CC>>,
       <<\h01CE>>, <<\h01D0>>, <<\h01D2>>, <<\h01D4>>, <<\h01D6>>, <<\h01D8>>, <<\h01DA>>,
       <<\h01DC>>, <<\h01DF>>, <<\h01E1>>, <<\h01E3>>, <<\h01E5>>, <<\h01E7>>, <<\h01E9>>,
       <<\h01EB>>, <<\h01ED>>, <<\h01EF>>, <<\h01F3>>, <<\h01F3>>, <<\h01F5>>, <<\h0195>>,
       <<\h01BF>>, <<\h01F9>>, <<\h01FB>>, <<\h01FD>>, <<\h01FF>>, <<\h0201>>, <<\h0203>>,
       <<\h0205>>, <<\h0207>>, <<\h0209>>, <<\h020B>>, <<\h020D>>, <<\h020F>>, <<\h0211>>,
       <<\h0213>>, <<\h0215>>, <<\h0217>>, <<\h0219>>, <<\h021B>>, <<\h021D>>, <<\h021F>>,
       <<\h019E>>, <<\h0223>>, <<\h0225>>, <<\h0227>>, <<\h0229>>, <<\h022B>>, <<\h022D>>,
       <<\h022F>>, <<\h0231>>, <<\h0233>>, <<\h2C65>>, <<\h023C>>, <<\h019A>>, <<\h2C66>>,
       <<\h0242>>, <<\h0180>>, <<\h0289>>, <<\h028C>>, <<\h0247>>, <<\h0249>>, <<\h024B>>,
       <<\h024D>>, <<\h024F>>, <<\h0371>>, <<\h0373>>, <<\h0377>>, <<\h03F3>>, <<\h03AC>>,
       <<\h03AD>>, <<\h03AE>>, <<\h03AF>>, <<\h03CC>>, <<\h03CD>>, <<\h03CE>>, <<\h03B1>>,
       <<\h03B2>>, <<\h03B3>>, <<\h03B4>>, <<\h03B5>>, <<\h03B6>>, <<\h03B7>>, <<\h03B8>>,
       <<\h03B9>>, <<\h03BA>>, <<\h03BB>>, <<\h03BC>>, <<\h03BD>>, <<\h03BE>>, <<\h03BF>>,
       <<\h03C0>>, <<\h03C1>>, <<\h03C3>>, <<\h03C4>>, <<\h03C5>>, <<\h03C6>>, <<\h03C7>>,
       <<\h03C8>>, <<\h03C9>>, <<\h03CA>>, <<\h03CB>>, <<\h03D7>>, <<\h03D9>>, <<\h03DB>>,
       <<\h03DD>>, <<\h03DF>>, <<\h03E1>>, <<\h03E3>>, <<\h03E5>>, <<\h03E7>>, <<\h03E9>>,
       <<\h03EB>>, <<\h03ED>>, <<\h03EF>>, <<\h03B8>>, <<\h03F8>>, <<\h03F2>>, <<\h03FB>>,
       <<\h037B>>, <<\h037C>>, <<\h037D>>, <<\h0450>>, <<\h0451>>, <<\h0452>>, <<\h0453>>,
       <<\h0454>>, <<\h0455>>, <<\h0456>>, <<\h0457>>, <<\h0458>>, <<\h0459>>, <<\h045A>>,
       <<\h045B>>, <<\h045C>>, <<\h045D>>, <<\h045E>>, <<\h045F>>, <<\h0430>>, <<\h0431>>,
       <<\h0432>>, <<\h0433>>, <<\h0434>>, <<\h0435>>, <<\h0436>>, <<\h0437>>, <<\h0438>>,
       <<\h0439>>, <<\h043A>>, <<\h043B>>, <<\h043C>>, <<\h043D>>, <<\h043E>>, <<\h043F>>,
       <<\h0440>>, <<\h0441>>, <<\h0442>>, <<\h0443>>, <<\h0444>>, <<\h0445>>, <<\h0446>>,
       <<\h0447>>, <<\h0448>>, <<\h0449>>, <<\h044A>>, <<\h044B>>, <<\h044C>>, <<\h044D>>,
       <<\h044E>>, <<\h044F>>, <<\h0461>>, <<\h0463>>, <<\h0465>>, <<\h0467>>, <<\h0469>>,
       <<\h046B>>, <<\h046D>>, <<\h046F>>, <<\h0471>>, <<\h0473>>, <<\h0475>>, <<\h0477>>,
       <<\h0479>>, <<\h047B>>, <<\h047D>>, <<\h047F>>, <<\h0481>>, <<\h048B>>, <<\h048D>>,
       <<\h048F>>, <<\h0491>>, <<\h0493>>, <<\h0495>>, <<\h0497>>, <<\h0499>>, <<\h049B>>,
       <<\h049D>>, <<\h049F>>, <<\h04A1>>, <<\h04A3>>, <<\h04A5>>, <<\h04A7>>, <<\h04A9>>,
       <<\h04AB>>, <<\h04AD>>, <<\h04AF>>, <<\h04B1>>, <<\h04B3>>, <<\h04B5>>, <<\h04B7>>,
       <<\h04B9>>, <<\h04BB>>, <<\h04BD>>, <<\h04BF>>, <<\h04CF>>, <<\h04C2>>, <<\h04C4>>,
       <<\h04C6>>, <<\h04C8>>, <<\h04CA>>, <<\h04CC>>, <<\h04CE>>, <<\h04D1>>, <<\h04D3>>,
       <<\h04D5>>, <<\h04D7>>, <<\h04D9>>, <<\h04DB>>, <<\h04DD>>, <<\h04DF>>, <<\h04E1>>,
       <<\h04E3>>, <<\h04E5>>, <<\h04E7>>, <<\h04E9>>, <<\h04EB>>, <<\h04ED>>, <<\h04EF>>,
       <<\h04F1>>, <<\h04F3>>, <<\h04F5>>, <<\h04F7>>, <<\h04F9>>, <<\h04FB>>, <<\h04FD>>,
       <<\h04FF>>, <<\h0501>>, <<\h0503>>, <<\h0505>>, <<\h0507>>, <<\h0509>>, <<\h050B>>,
       <<\h050D>>, <<\h050F>>, <<\h0511>>, <<\h0513>>, <<\h0515>>, <<\h0517>>, <<\h0519>>,
       <<\h051B>>, <<\h051D>>, <<\h051F>>, <<\h0521>>, <<\h0523>>, <<\h0525>>, <<\h0527>>,
       <<\h0529>>, <<\h052B>>, <<\h052D>>, <<\h052F>>, <<\h0561>>, <<\h0562>>, <<\h0563>>,
       <<\h0564>>, <<\h0565>>, <<\h0566>>, <<\h0567>>, <<\h0568>>, <<\h0569>>, <<\h056A>>,
       <<\h056B>>, <<\h056C>>, <<\h056D>>, <<\h056E>>, <<\h056F>>, <<\h0570>>, <<\h0571>>,
       <<\h0572>>, <<\h0573>>, <<\h0574>>, <<\h0575>>, <<\h0576>>, <<\h0577>>, <<\h0578>>,
       <<\h0579>>, <<\h057A>>, <<\h057B>>, <<\h057C>>, <<\h057D>>, <<\h057E>>, <<\h057F>>,
       <<\h0580>>, <<\h0581>>, <<\h0582>>, <<\h0583>>, <<\h0584>>, <<\h0585>>, <<\h0586>>,
       <<\h2D00>>, <<\h2D01>>, <<\h2D02>>, <<\h2D03>>, <<\h2D04>>, <<\h2D05>>, <<\h2D06>>,
       <<\h2D07>>, <<\h2D08>>, <<\h2D09>>, <<\h2D0A>>, <<\h2D0B>>, <<\h2D0C>>, <<\h2D0D>>,
       <<\h2D0E>>, <<\h2D0F>>, <<\h2D10>>, <<\h2D11>>, <<\h2D12>>, <<\h2D13>>, <<\h2D14>>,
       <<\h2D15>>, <<\h2D16>>, <<\h2D17>>, <<\h2D18>>, <<\h2D19>>, <<\h2D1A>>, <<\h2D1B>>,
       <<\h2D1C>>, <<\h2D1D>>, <<\h2D1E>>, <<\h2D1F>>, <<\h2D20>>, <<\h2D21>>, <<\h2D22>>,
       <<\h2D23>>, <<\h2D24>>, <<\h2D25>>, <<\h2D27>>, <<\h2D2D>>, <<\hAB70>>, <<\hAB71>>,
       <<\hAB72>>, <<\hAB73>>, <<\hAB74>>, <<\hAB75>>, <<\hAB76>>, <<\hAB77>>, <<\hAB78>>,
       <<\hAB79>>, <<\hAB7A>>, <<\hAB7B>>, <<\hAB7C>>, <<\hAB7D>>, <<\hAB7E>>, <<\hAB7F>>,
       <<\hAB80>>, <<\hAB81>>, <<\hAB82>>, <<\hAB83>>, <<\hAB84>>, <<\hAB85>>, <<\hAB86>>,
       <<\hAB87>>, <<\hAB88>>, <<\hAB89>>, <<\hAB8A>>, <<\hAB8B>>, <<\hAB8C>>, <<\hAB8D>>,
       <<\hAB8E>>, <<\hAB8F>>, <<\hAB90>>, <<\hAB91>>, <<\hAB92>>, <<\hAB93>>, <<\hAB94>>,
       <<\hAB95>>, <<\hAB96>>, <<\hAB97>>, <<\hAB98>>, <<\hAB99>>, <<\hAB9A>>, <<\hAB9B>>,
       <<\hAB9C>>, <<\hAB9D>>, <<\hAB9E>>, <<\hAB9F>>, <<\hABA0>>, <<\hABA1>>, <<\hABA2>>,
       <<\hABA3>>, <<\hABA4>>, <<\hABA5>>, <<\hABA6>>, <<\hABA7>>, <<\hABA8>>, <<\hABA9>>,
       <<\hABAA>>, <<\hABAB>>, <<\hABAC>>, <<\hABAD>>, <<\hABAE>>, <<\hABAF>>, <<\hABB0>>,
       <<\hABB1>>, <<\hABB2>>, <<\hABB3>>, <<\hABB4>>, <<\hABB5>>, <<\hABB6>>, <<\hABB7>>,
       <<\hABB8>>, <<\hABB9>>, <<\hABBA>>, <<\hABBB>>, <<\hABBC>>, <<\hABBD>>, <<\hABBE>>,
       <<\hABBF>>, <<\h13F8>>, <<\h13F9>>, <<\h13FA>>, <<\h13FB>>, <<\h13FC>>, <<\h13FD>>,
       <<\h1C8A>>, <<\h10D0>>, <<\h10D1>>, <<\h10D2>>, <<\h10D3>>, <<\h10D4>>, <<\h10D5>>,
       <<\h10D6>>, <<\h10D7>>, <<\h10D8>>, <<\h10D9>>, <<\h10DA>>, <<\h10DB>>, <<\h10DC>>,
       <<\h10DD>>, <<\h10DE>>, <<\h10DF>>, <<\h10E0>>, <<\h10E1>>, <<\h10E2>>, <<\h10E3>>,
       <<\h10E4>>, <<\h10E5>>, <<\h10E6>>, <<\h10E7>>, <<\h10E8>>, <<\h10E9>>, <<\h10EA>>,
       <<\h10EB>>, <<\h10EC>>, <<\h10ED>>, <<\h10EE>>, <<\h10EF>>, <<\h10F0>>, <<\h10F1>>,
       <<\h10F2>>, <<\h10F3>>, <<\h10F4>>, <<\h10F5>>, <<\h10F6>>, <<\h10F7>>, <<\h10F8>>,
       <<\h10F9>>, <<\h10FA>>, <<\h10FD>>, <<\h10FE>>, <<\h10FF>>, <<\h1E01>>, <<\h1E03>>,
       <<\h1E05>>, <<\h1E07>>, <<\h1E09>>, <<\h1E0B>>, <<\h1E0D>>, <<\h1E0F>>, <<\h1E11>>,
       <<\h1E13>>, <<\h1E15>>, <<\h1E17>>, <<\h1E19>>, <<\h1E1B>>, <<\h1E1D>>, <<\h1E1F>>,
       <<\h1E21>>, <<\h1E23>>, <<\h1E25>>, <<\h1E27>>, <<\h1E29>>, <<\h1E2B>>, <<\h1E2D>>,
       <<\h1E2F>>, <<\h1E31>>, <<\h1E33>>, <<\h1E35>>, <<\h1E37>>, <<\h1E39>>, <<\h1E3B>>,
       <<\h1E3D>>, <<\h1E3F>>, <<\h1E41>>, <<\h1E43>>, <<\h1E45>>, <<\h1E47>>, <<\h1E49>>,
       <<\h1E4B>>, <<\h1E4D>>, <<\h1E4F>>, <<\h1E51>>, <<\h1E53>>, <<\h1E55>>, <<\h1E57>>,
       <<\h1E59>>, <<\h1E5B>>, <<\h1E5D>>, <<\h1E5F>>, <<\h1E61>>, <<\h1E63>>, <<\h1E65>>,
       <<\h1E67>>, <<\h1E69>>, <<\h1E6B>>, <<\h1E6D>>, <<\h1E6F>>, <<\h1E71>>, <<\h1E73>>,
       <<\h1E75>>, <<\h1E77>>, <<\h1E79>>, <<\h1E7B>>, <<\h1E7D>>, <<\h1E7F>>, <<\h1E81>>,
       <<\h1E83>>, <<\h1E85>>, <<\h1E87>>, <<\h1E89>>, <<\h1E8B>>, <<\h1E8D>>, <<\h1E8F>>,
       <<\h1E91>>, <<\h1E93>>, <<\h1E95>>, <<\h00DF>>, <<\h1EA1>>, <<\h1EA3>>, <<\h1EA5>>,
       <<\h1EA7>>, <<\h1EA9>>, <<\h1EAB>>, <<\h1EAD>>, <<\h1EAF>>, <<\h1EB1>>, <<\h1EB3>>,
       <<\h1EB5>>, <<\h1EB7>>, <<\h1EB9>>, <<\h1EBB>>, <<\h1EBD>>, <<\h1EBF>>, <<\h1EC1>>,
       <<\h1EC3>>, <<\h1EC5>>, <<\h1EC7>>, <<\h1EC9>>, <<\h1ECB>>, <<\h1ECD>>, <<\h1ECF>>,
       <<\h1ED1>>, <<\h1ED3>>, <<\h1ED5>>, <<\h1ED7>>, <<\h1ED9>>, <<\h1EDB>>, <<\h1EDD>>,
       <<\h1EDF>>, <<\h1EE1>>, <<\h1EE3>>, <<\h1EE5>>, <<\h1EE7>>, <<\h1EE9>>, <<\h1EEB>>,
       <<\h1EED>>, <<\h1EEF>>, <<\h1EF1>>, <<\h1EF3>>, <<\h1EF5>>, <<\h1EF7>>, <<\h1EF9>>,
       <<\h1EFB>>, <<\h1EFD>>, <<\h1EFF>>, <<\h1F00>>, <<\h1F01>>, <<\h1F02>>, <<\h1F03>>,
       <<\h1F04>>, <<\h1F05>>, <<\h1F06>>, <<\h1F07>>, <<\h1F10>>, <<\h1F11>>, <<\h1F12>>,
       <<\h1F13>>, <<\h1F14>>, <<\h1F15>>, <<\h1F20>>, <<\h1F21>>, <<\h1F22>>, <<\h1F23>>,
       <<\h1F24>>, <<\h1F25>>, <<\h1F26>>, <<\h1F27>>, <<\h1F30>>, <<\h1F31>>, <<\h1F32>>,
       <<\h1F33>>, <<\h1F34>>, <<\h1F35>>, <<\h1F36>>, <<\h1F37>>, <<\h1F40>>, <<\h1F41>>,
       <<\h1F42>>, <<\h1F43>>, <<\h1F44>>, <<\h1F45>>, <<\h1F51>>, <<\h1F53>>, <<\h1F55>>,
       <<\h1F57>>, <<\h1F60>>, <<\h1F61>>, <<\h1F62>>, <<\h1F63>>, <<\h1F64>>, <<\h1F65>>,
       <<\h1F66>>, <<\h1F67>>, <<\h1F80>>, <<\h1F81>>, <<\h1F82>>, <<\h1F83>>, <<\h1F84>>,
       <<\h1F85>>, <<\h1F86>>, <<\h1F87>>, <<\h1F90>>, <<\h1F91>>, <<\h1F92>>, <<\h1F93>>,
       <<\h1F94>>, <<\h1F95>>, <<\h1F96>>, <<\h1F97>>, <<\h1FA0>>, <<\h1FA1>>, <<\h1FA2>>,
       <<\h1FA3>>, <<\h1FA4>>, <<\h1FA5>>, <<\h1FA6>>, <<\h1FA7>>, <<\h1FB0>>, <<\h1FB1>>,
       <<\h1F70>>, <<\h1F71>>, <<\h1FB3>>, <<\h1F72>>, <<\h1F73>>, <<\h1F74>>, <<\h1F75>>,
       <<\h1FC3>>, <<\h1FD0>>, <<\h1FD1>>, <<\h1F76>>, <<\h1F77>>, <<\h1FE0>>, <<\h1FE1>>,
       <<\h1F7A>>, <<\h1F7B>>, <<\h1FE5>>, <<\h1F78>>, <<\h1F79>>, <<\h1F7C>>, <<\h1F7D>>,
       <<\h1FF3>>, <<\h03C9>>, <<\h006B>>, <<\h00E5>>, <<\h214E>>, <<\h2170>>, <<\h2171>>,
       <<\h2172>>, <<\h2173>>, <<\h2174>>, <<\h2175>>, <<\h2176>>, <<\h2177>>, <<\h2178>>,
       <<\h2179>>, <<\h217A>>, <<\h217B>>, <<\h217C>>, <<\h217D>>, <<\h217E>>, <<\h217F>>,
       <<\h2184>>, <<\h24D0>>, <<\h24D1>>, <<\h24D2>>, <<\h24D3>>, <<\h24D4>>, <<\h24D5>>,
       <<\h24D6>>, <<\h24D7>>, <<\h24D8>>, <<\h24D9>>, <<\h24DA>>, <<\h24DB>>, <<\h24DC>>,
       <<\h24DD>>, <<\h24DE>>, <<\h24DF>>, <<\h24E0>>, <<\h24E1>>, <<\h24E2>>, <<\h24E3>>,
       <<\h24E4>>, <<\h24E5>>, <<\h24E6>>, <<\h24E7>>, <<\h24E8>>, <<\h24E9>>, <<\h2C30>>,
       <<\h2C31>>, <<\h2C32>>, <<\h2C33>>, <<\h2C34>>, <<\h2C35>>, <<\h2C36>>, <<\h2C37>>,
       <<\h2C38>>, <<\h2C39>>, <<\h2C3A>>, <<\h2C3B>>, <<\h2C3C>>, <<\h2C3D>>, <<\h2C3E>>,
       <<\h2C3F>>, <<\h2C40>>, <<\h2C41>>, <<\h2C42>>, <<\h2C43>>, <<\h2C44>>, <<\h2C45>>,
       <<\h2C46>>, <<\h2C47>>, <<\h2C48>>, <<\h2C49>>, <<\h2C4A>>, <<\h2C4B>>, <<\h2C4C>>,
       <<\h2C4D>>, <<\h2C4E>>, <<\h2C4F>>, <<\h2C50>>, <<\h2C51>>, <<\h2C52>>, <<\h2C53>>,
       <<\h2C54>>, <<\h2C55>>, <<\h2C56>>, <<\h2C57>>, <<\h2C58>>, <<\h2C59>>, <<\h2C5A>>,
       <<\h2C5B>>, <<\h2C5C>>, <<\h2C5D>>, <<\h2C5E>>, <<\h2C5F>>, <<\h2C61>>, <<\h026B>>,
       <<\h1D7D>>, <<\h027D>>, <<\h2C68>>, <<\h2C6A>>, <<\h2C6C>>, <<\h0251>>, <<\h0271>>,
       <<\h0250>>, <<\h0252>>, <<\h2C73>>, <<\h2C76>>, <<\h023F>>, <<\h0240>>, <<\h2C81>>,
       <<\h2C83>>, <<\h2C85>>, <<\h2C87>>, <<\h2C89>>, <<\h2C8B>>, <<\h2C8D>>, <<\h2C8F>>,
       <<\h2C91>>, <<\h2C93>>, <<\h2C95>>, <<\h2C97>>, <<\h2C99>>, <<\h2C9B>>, <<\h2C9D>>,
       <<\h2C9F>>, <<\h2CA1>>, <<\h2CA3>>, <<\h2CA5>>, <<\h2CA7>>, <<\h2CA9>>, <<\h2CAB>>,
       <<\h2CAD>>, <<\h2CAF>>, <<\h2CB1>>, <<\h2CB3>>, <<\h2CB5>>, <<\h2CB7>>, <<\h2CB9>>,
       <<\h2CBB>>, <<\h2CBD>>, <<\h2CBF>>, <<\h2CC1>>, <<\h2CC3>>, <<\h2CC5>>, <<\h2CC7>>,
       <<\h2CC9>>, <<\h2CCB>>, <<\h2CCD>>, <<\h2CCF>>, <<\h2CD1>>, <<\h2CD3>>, <<\h2CD5>>,
       <<\h2CD7>>, <<\h2CD9>>, <<\h2CDB>>, <<\h2CDD>>, <<\h2CDF>>, <<\h2CE1>>, <<\h2CE3>>,
       <<\h2CEC>>, <<\h2CEE>>, <<\h2CF3>>, <<\hA641>>, <<\hA643>>, <<\hA645>>, <<\hA647>>,
       <<\hA649>>, <<\hA64B>>, <<\hA64D>>, <<\hA64F>>, <<\hA651>>, <<\hA653>>, <<\hA655>>,
       <<\hA657>>, <<\hA659>>, <<\hA65B>>, <<\hA65D>>, <<\hA65F>>, <<\hA661>>, <<\hA663>>,
       <<\hA665>>, <<\hA667>>, <<\hA669>>, <<\hA66B>>, <<\hA66D>>, <<\hA681>>, <<\hA683>>,
       <<\hA685>>, <<\hA687>>, <<\hA689>>, <<\hA68B>>, <<\hA68D>>, <<\hA68F>>, <<\hA691>>,
       <<\hA693>>, <<\hA695>>, <<\hA697>>, <<\hA699>>, <<\hA69B>>, <<\hA723>>, <<\hA725>>,
       <<\hA727>>, <<\hA729>>, <<\hA72B>>, <<\hA72D>>, <<\hA72F>>, <<\hA733>>, <<\hA735>>,
       <<\hA737>>, <<\hA739>>, <<\hA73B>>, <<\hA73D>>, <<\hA73F>>, <<\hA741>>, <<\hA743>>,
       <<\hA745>>, <<\hA747>>, <<\hA749>>, <<\hA74B>>, <<\hA74D>>, <<\hA74F>>, <<\hA751>>,
       <<\hA753>>, <<\hA755>>, <<\hA757>>, <<\hA759>>, <<\hA75B>>, <<\hA75D>>, <<\hA75F>>,
       <<\hA761>>, <<\hA763>>, <<\hA765>>, <<\hA767>>, <<\hA769>>, <<\hA76B>>, <<\hA76D>>,
       <<\hA76F>>, <<\hA77A>>, <<\hA77C>>, <<\h1D79>>, <<\hA77F>>, <<\hA781>>, <<\hA783>>,
       <<\hA785>>, <<\hA787>>, <<\hA78C>>, <<\h0265>>, <<\hA791>>, <<\hA793>>, <<\hA797>>,
       <<\hA799>>, <<\hA79B>>, <<\hA79D>>, <<\hA79F>>, <<\hA7A1>>, <<\hA7A3>>, <<\hA7A5>>,
       <<\hA7A7>>, <<\hA7A9>>, <<\h0266>>, <<\h025C>>, <<\h0261>>, <<\h026C>>, <<\h026A>>,
       <<\h029E>>, <<\h0287>>, <<\h029D>>, <<\hAB53>>, <<\hA7B5>>, <<\hA7B7>>, <<\hA7B9>>,
       <<\hA7BB>>, <<\hA7BD>>, <<\hA7BF>>, <<\hA7C1>>, <<\hA7C3>>, <<\hA794>>, <<\h0282>>,
       <<\h1D8E>>, <<\hA7C8>>, <<\hA7CA>>, <<\h0264>>, <<\hA7CD>>, <<\hA7CF>>, <<\hA7D1>>,
       <<\hA7D3>>, <<\hA7D5>>, <<\hA7D7>>, <<\hA7D9>>, <<\hA7DB>>, <<\h019B>>, <<\hA7F6>>,
       <<\hFF41>>, <<\hFF42>>, <<\hFF43>>, <<\hFF44>>, <<\hFF45>>, <<\hFF46>>, <<\hFF47>>,
       <<\hFF48>>, <<\hFF49>>, <<\hFF4A>>, <<\hFF4B>>, <<\hFF4C>>, <<\hFF4D>>, <<\hFF4E>>,
       <<\hFF4F>>, <<\hFF50>>, <<\hFF51>>, <<\hFF52>>, <<\hFF53>>, <<\hFF54>>, <<\hFF55>>,
       <<\hFF56>>, <<\hFF57>>, <<\hFF58>>, <<\hFF59>>, <<\hFF5A>>, <<\h10428>>, <<\h10429>>,
       <<\h1042A>>, <<\h1042B>>, <<\h1042C>>, <<\h1042D>>, <<\h1042E>>, <<\h1042F>>, <<\h10430>>,
       <<\h10431>>, <<\h10432>>, <<\h10433>>, <<\h10434>>, <<\h10435>>, <<\h10436>>, <<\h10437>>,
       <<\h10438>>, <<\h10439>>, <<\h1043A>>, <<\h1043B>>, <<\h1043C>>, <<\h1043D>>, <<\h1043E>>,
       <<\h1043F>>, <<\h10440>>, <<\h10441>>, <<\h10442>>, <<\h10443>>, <<\h10444>>, <<\h10445>>,
       <<\h10446>>, <<\h10447>>, <<\h10448>>, <<\h10449>>, <<\h1044A>>, <<\h1044B>>, <<\h1044C>>,
       <<\h1044D>>, <<\h1044E>>, <<\h1044F>>, <<\h104D8>>, <<\h104D9>>, <<\h104DA>>, <<\h104DB>>,
       <<\h104DC>>, <<\h104DD>>, <<\h104DE>>, <<\h104DF>>, <<\h104E0>>, <<\h104E1>>, <<\h104E2>>,
       <<\h104E3>>, <<\h104E4>>, <<\h104E5>>, <<\h104E6>>, <<\h104E7>>, <<\h104E8>>, <<\h104E9>>,
       <<\h104EA>>, <<\h104EB>>, <<\h104EC>>, <<\h104ED>>, <<\h104EE>>, <<\h104EF>>, <<\h104F0>>,
       <<\h104F1>>, <<\h104F2>>, <<\h104F3>>, <<\h104F4>>, <<\h104F5>>, <<\h104F6>>, <<\h104F7>>,
       <<\h104F8>>, <<\h104F9>>, <<\h104FA>>, <<\h104FB>>, <<\h10597>>, <<\h10598>>, <<\h10599>>,
       <<\h1059A>>, <<\h1059B>>, <<\h1059C>>, <<\h1059D>>, <<\h1059E>>, <<\h1059F>>, <<\h105A0>>,
       <<\h105A1>>, <<\h105A3>>, <<\h105A4>>, <<\h105A5>>, <<\h105A6>>, <<\h105A7>>, <<\h105A8>>,
       <<\h105A9>>, <<\h105AA>>, <<\h105AB>>, <<\h105AC>>, <<\h105AD>>, <<\h105AE>>, <<\h105AF>>,
       <<\h105B0>>, <<\h105B1>>, <<\h105B3>>, <<\h105B4>>, <<\h105B5>>, <<\h105B6>>, <<\h105B7>>,
       <<\h105B8>>, <<\h105B9>>, <<\h105BB>>, <<\h105BC>>, <<\h10CC0>>, <<\h10CC1>>, <<\h10CC2>>,
       <<\h10CC3>>, <<\h10CC4>>, <<\h10CC5>>, <<\h10CC6>>, <<\h10CC7>>, <<\h10CC8>>, <<\h10CC9>>,
       <<\h10CCA>>, <<\h10CCB>>, <<\h10CCC>>, <<\h10CCD>>, <<\h10CCE>>, <<\h10CCF>>, <<\h10CD0>>,
       <<\h10CD1>>, <<\h10CD2>>, <<\h10CD3>>, <<\h10CD4>>, <<\h10CD5>>, <<\h10CD6>>, <<\h10CD7>>,
       <<\h10CD8>>, <<\h10CD9>>, <<\h10CDA>>, <<\h10CDB>>, <<\h10CDC>>, <<\h10CDD>>, <<\h10CDE>>,
       <<\h10CDF>>, <<\h10CE0>>, <<\h10CE1>>, <<\h10CE2>>, <<\h10CE3>>, <<\h10CE4>>, <<\h10CE5>>,
       <<\h10CE6>>, <<\h10CE7>>, <<\h10CE8>>, <<\h10CE9>>, <<\h10CEA>>, <<\h10CEB>>, <<\h10CEC>>,
       <<\h10CED>>, <<\h10CEE>>, <<\h10CEF>>, <<\h10CF0>>, <<\h10CF1>>, <<\h10CF2>>, <<\h10D70>>,
       <<\h10D71>>, <<\h10D72>>, <<\h10D73>>, <<\h10D74>>, <<\h10D75>>, <<\h10D76>>, <<\h10D77>>,
       <<\h10D78>>, <<\h10D79>>, <<\h10D7A>>, <<\h10D7B>>, <<\h10D7C>>, <<\h10D7D>>, <<\h10D7E>>,
       <<\h10D7F>>, <<\h10D80>>, <<\h10D81>>, <<\h10D82>>, <<\h10D83>>, <<\h10D84>>, <<\h10D85>>,
       <<\h118C0>>, <<\h118C1>>, <<\h118C2>>, <<\h118C3>>, <<\h118C4>>, <<\h118C5>>, <<\h118C6>>,
       <<\h118C7>>, <<\h118C8>>, <<\h118C9>>, <<\h118CA>>, <<\h118CB>>, <<\h118CC>>, <<\h118CD>>,
       <<\h118CE>>, <<\h118CF>>, <<\h118D0>>, <<\h118D1>>, <<\h118D2>>, <<\h118D3>>, <<\h118D4>>,
       <<\h118D5>>, <<\h118D6>>, <<\h118D7>>, <<\h118D8>>, <<\h118D9>>, <<\h118DA>>, <<\h118DB>>,
       <<\h118DC>>, <<\h118DD>>, <<\h118DE>>, <<\h118DF>>, <<\h16E60>>, <<\h16E61>>, <<\h16E62>>,
       <<\h16E63>>, <<\h16E64>>, <<\h16E65>>, <<\h16E66>>, <<\h16E67>>, <<\h16E68>>, <<\h16E69>>,
       <<\h16E6A>>, <<\h16E6B>>, <<\h16E6C>>, <<\h16E6D>>, <<\h16E6E>>, <<\h16E6F>>, <<\h16E70>>,
       <<\h16E71>>, <<\h16E72>>, <<\h16E73>>, <<\h16E74>>, <<\h16E75>>, <<\h16E76>>, <<\h16E77>>,
       <<\h16E78>>, <<\h16E79>>, <<\h16E7A>>, <<\h16E7B>>, <<\h16E7C>>, <<\h16E7D>>, <<\h16E7E>>,
       <<\h16E7F>>, <<\h16EBB>>, <<\h16EBC>>, <<\h16EBD>>, <<\h16EBE>>, <<\h16EBF>>, <<\h16EC0>>,
       <<\h16EC1>>, <<\h16EC2>>, <<\h16EC3>>, <<\h16EC4>>, <<\h16EC5>>, <<\h16EC6>>, <<\h16EC7>>,
       <<\h16EC8>>, <<\h16EC9>>, <<\h16ECA>>, <<\h16ECB>>, <<\h16ECC>>, <<\h16ECD>>, <<\h16ECE>>,
       <<\h16ECF>>, <<\h16ED0>>, <<\h16ED1>>, <<\h16ED2>>, <<\h16ED3>>, <<\h1E922>>, <<\h1E923>>,
       <<\h1E924>>, <<\h1E925>>, <<\h1E926>>, <<\h1E927>>, <<\h1E928>>, <<\h1E929>>, <<\h1E92A>>,
       <<\h1E92B>>, <<\h1E92C>>, <<\h1E92D>>, <<\h1E92E>>, <<\h1E92F>>, <<\h1E930>>, <<\h1E931>>,
       <<\h1E932>>, <<\h1E933>>, <<\h1E934>>, <<\h1E935>>, <<\h1E936>>, <<\h1E937>>, <<\h1E938>>,
       <<\h1E939>>, <<\h1E93A>>, <<\h1E93B>>, <<\h1E93C>>, <<\h1E93D>>, <<\h1E93E>>, <<\h1E93F>>,
       <<\h1E940>>, <<\h1E941>>, <<\h1E942>>, <<\h1E943>> >>

\* the characters char::to_uppercase changes (the keys of UPPERCASE_TABLE),
\* in code point order
LowerChars ==
    << \h0061, \h0062, \h0063, \h0064, \h0065, \h0066, \h0067, \h0068, \h0069, \h006A,
       \h006B, \h006C, \h006D, \h006E, \h006F, \h0070, \h0071, \h0072, \h0073, \h0074,
       \h0075, \h0076, \h0077, \h0078, \h0079, \h007A, \h00B5, \h00DF, \h00E0, \h00E1,
       \h00E2, \h00E3, \h00E4, \h00E5, \h00E6, \h00E7, \h00E8, \h00E9, \h00EA, \h00EB,
       \h00EC, \h00ED, \h00EE, \h00EF, \h00F0, \h00F1, \h00F2, \h00F3, \h00F4, \h00F5,
       \h00F6, \h00F8, \h00F9, \h00FA, \h00FB, \h00FC, \h00FD, \h00FE, \h00FF, \h0101,
       \h0103, \h0105, \h0107, \h0109, \h010B, \h010D, \h010F, \h0111, \h0113, \h0115,
       \h0117, \h0119, \h011B, \h011D, \h011F, \h0121, \h0123, \h0125, \h0127, \h0129,
       \h012B, \h012D, \h012F, \h0131, \h0133, \h0135, \h0137, \h013A, \h013C, \h013E,
       \h0140, \h0142, \h0144, \h0146, \h0148, \h0149, \h014B, \h014D, \h014F, \h0151,
       \h0153, \h0155, \h0157, \h0159, \h015B, \h015D, \h015F, \h0161, \h0163, \h0165,
       \h0167, \h0169, \h016B, \h016D, \h016F, \h0171, \h0173, \h0175, \h0177, \h017A,
       \h017C, \h017E, \h017F, \h0180, \h0183, \h0185, \h0188, \h018C, \h0192, \h0195,
       \h0199, \h019A, \h019B, \h019E, \h01A1, \h01A3, \h01A5, \h01A8, \h01AD, \h01B0,
       \h01B4, \h01B6, \h01B9, \h01BD, \h01BF, \h01C5, \h01C6, \h01C8, \h01C9, \h01CB,
       \h01CC, \h01CE, \h01D0, \h01D2, \h01D4, \h01D6, \h01D8, \h01DA, \h01DC, \h01DD,
       \h01DF, \h01E1, \h01E3, \h01E5, \h01E7, \h01E9, \h01EB, \h01ED, \h01EF, \h01F0,
       \h01F2, \h01F3, \h01F5, \h01F9, \h01FB, \h01FD, \h01FF, \h0201, \h0203, \h0205,
       \h0207, \h0209, \h020B, \h020D, \h020F, \h0211, \h0213, \h0215, \h0217, \h0219,
       \h021B, \h021D, \h021F, \h0223, \h0225, \h0227, \h0229, \h022B, \h022D, \h022F,
       \h0231, \h0233, \h023C, \h023F, \h0240, \h0242, \h0247, \h0249, \h024B, \h024D,
       \h024F, \h0250, \h0251, \h0252, \h0253, \h0254, \h0256, \h0257, \h0259, \h025B,
       \h025C, \h0260, \h0261, \h0263, \h0264, \h0265, \h0266, \h0268, \h0269, \h026A,
       \h026B, \h026C, \h026F, \h0271, \h0272, \h0275, \h027D, \h0280, \h0282, \h0283,
       \h0287, \h0288, \h0289, \h028A, \h028B, \h028C, \h0292, \h029D, \h029E, \h0345,
       \h0371, \h0373, \h0377, \h037B, \h037C, \h037D, \h0390, \h03AC, \h03AD, \h03AE,
       \h03AF, \h03B0, \h03B1, \h03B2, \h03B3, \h03B4, \h03B5, \h03B6, \h03B7, \h03B8,
       \h03B9, \h03BA, \h03BB, \h03BC, \h03BD, \h03BE, \h03BF, \h03C0, \h03C1, \h03C2,
       \h03C3, \h03C4, \h03C5, \h03C6, \h03C7, \h03C8, \h03C9, \h03CA, \h03CB, \h03CC,
       \h03CD, \h03CE, \h03D0, \h03D1, \h03D5, \h03D6, \h03D7, \h03D9, \h03DB, \h03DD,
       \h03DF, \h03E1, \h03E3, \h03E5, \h03E7, \h03E9, \h03EB, \h03ED, \h03EF, \h03F0,
       \h03F1, \h03F2, \h03F3, \h03F5, \h03F8, \h03FB, \h0430, \h0431, \h0432, \h0433,
       \h0434, \h0435, \h0436, \h0437, \h0438, \h0439, \h043A, \h043B, \h043C, \h043D,
       \h043E, \h043F, \h0440, \h0441, \h0442, \h0443, \h0444, \h0445, \h0446, \h0447,
       \h0448, \h0449, \h044A, \h044B, \h044C, \h044D, \h044E, \h044F, \h0450, \h0451,
       \h0452, \h0453, \h0454, \h0455, \h0456, \h0457, \h0458, \h0459, \h045A, \h045B,
       \h045C, \h045D, \h045E, \h045F, \h0461, \h0463, \h0465, \h0467, \h0469, \h046B,
       \h046D, \h046F, \h0471, \h0473, \h0475, \h0477, \h0479, \h047B, \h047D, \h047F,
       \h0481, \h048B, \h048D, \h048F, \h0491, \h0493, \h0495, \h0497, \h0499, \h049B,
       \h049D, \h049F, \h04A1, \h04A3, \h04A5, \h04A7, \h04A9, \h04AB, \h04AD, \h04AF,
       \h04B1, \h04B3, \h04B5, \h04B7, \h04B9, \h04BB, \h04BD, \h04BF, \h04C2, \h04C4,
       \h04C6, \h04C8, \h04CA, \h04CC, \h04CE, \h04CF, \h04D1, \h04D3, \h04D5, \h04D7,
       \h04D9, \h04DB, \h04DD, \h04DF, \h04E1, \h04E3, \h04E5, \h04E7, \h04E9, \h04EB,
       \h04ED, \h04EF, \h04F1, \h04F3, \h04F5, \h04F7, \h04F9, \h04FB, \h04FD, \h04FF,
       \h0501, \h0503, \h0505, \h0507, \h0509, \h050B, \h050D, \h050F, \h0511, \h0513,
       \h0515, \h0517, \h0519, \h051B, \h051D, \h051F, \h0521, \h0523, \h0525, \h0527,
       \h0529, \h052B, \h052D, \h052F, \h0561, \h0562, \h0563, \h0564, \h0565, \h0566,
       \h0567, \h0568, \h0569, \h056A, \h056B, \h056C, \h056D, \h056E, \h056F, \h0570,
       \h0571, \h0572, \h0573, \h0574, \h0575, \h0576, \h0577, \h0578, \h0579, \h057A,
       \h057B, \h057C, \h057D, \h057E, \h057F, \h0580, \h0581, \h0582, \h0583, \h0584,
       \h0585, \h0586, \h0587, \h10D0, \h10D1, \h10D2, \h10D3, \h10D4, \h10D5, \h10D6,
       \h10D7, \h10D8, \h10D9, \h10DA, \h10DB, \h10DC, \h10DD, \h10DE, \h10DF, \h10E0,
       \h10E1, \h10E2, \h10E3, \h10E4, \h10E5, \h10E6, \h10E7, \h10E8, \h10E9, \h10EA,
       \h10EB, \h10EC, \h10ED, \h10EE, \h10EF, \h10F0, \h10F1, \h10F2, \h10F3, \h10F4,
       \h10F5, \h10F6, \h10F7, \h10F8, \h10F9, \h10FA, \h10FD, \h10FE, \h10FF, \h13F8,
       \h13F9, \h13FA, \h13FB, \h13FC, \h13FD, \h1C80, \h1C81, \h1C82, \h1C83, \h1C84,
       \h1C85, \h1C86, \h1C87, \h1C88, \h1C8A, \h1D79, \h1D7D, \h1D8E, \h1E01, \h1E03,
       \h1E05, \h1E07, \h1E09, \h1E0B, \h1E0D, \h1E0F, \h1E11, \h1E13, \h1E15, \h1E17,
       \h1E19, \h1E1B, \h1E1D, \h1E1F, \h1E21, \h1E23, \h1E25, \h1E27, \h1E29, \h1E2B,
       \h1E2D, \h1E2F, \h1E31, \h1E33, \h1E35, \h1E37, \h1E39, \h1E3B, \h1E3D, \h1E3F,
       \h1E41, \h1E43, \h1E45, \h1E47, \h1E49, \h1E4B, \h1E4D, \h1E4F, \h1E51, \h1E53,
       \h1E55, \h1E57, \h1E59, \h1E5B, \h1E5D, \h1E5F, \h1E61, \h1E63, \h1E65, \h1E67,
       \h1E69, \h1E6B, \h1E6D, \h1E6F, \h1E71, \h1E73, \h1E75, \h1E77, \h1E79, \h1E7B,
       \h1E7D, \h1E7F, \h1E81, \h1E83, \h1E85, \h1E87, \h1E89, \h1E8B, \h1E8D, \h1E8F,
       \h1E91, \h1E93, \h1E95, \h1E96, \h1E97, \h1E98, \h1E99, \h1E9A, \h1E9B, \h1EA1,
       \h1EA3, \h1EA5, \h1EA7, \h1EA9, \h1EAB, \h1EAD, \h1EAF, \h1EB1, \h1EB3, \h1EB5,
       \h1EB7, \h1EB9, \h1EBB, \h1EBD, \h1EBF, \h1EC1, \h1EC3, \h1EC5, \h1EC7, \h1EC9,
       \h1ECB, \h1ECD, \h1ECF, \h1ED1, \h1ED3, \h1ED5, \h1ED7, \h1ED9, \h1EDB, \h1EDD,
       \h1EDF, \h1EE1, \h1EE3, \h1EE5, \h1EE7, \h1EE9, \h1EEB, \h1EED, \h1EEF, \h1EF1,
       \h1EF3, \h1EF5, \h1EF7, \h1EF9, \h1EFB, \h1EFD, \h1EFF, \h1F00, \h1F01, \h1F02,
       \h1F03, \h1F04, \h1F05, \h1F06, \h1F07, \h1F10, \h1F11, \h1F12, \h1F13, \h1F14,
       \h1F15, \h1F20, \h1F21, \h1F22, \h1F23, \h1F24, \h1F25, \h1F26, \h1F27, \h1F30,
       \h1F31, \h1F32, \h1F33, \h1F34, \h1F35, \h1F36, \h1F37, \h1F40, \h1F41, \h1F42,
       \h1F43, \h1F44, \h1F45, \h1F50, \h1F51, \h1F52, \h1F53, \h1F54, \h1F55, \h1F56,
       \h1F57, \h1F60, \h1F61, \h1F62, \h1F63, \h1F64, \h1F65, \h1F66, \h1F67, \h1F70,
       \h1F71, \h1F72, \h1F73, \h1F74, \h1F75, \h1F76, \h1F77, \h1F78, \h1F79, \h1F7A,
       \h1F7B, \h1F7C, \h1F7D, \h1F80, \h1F81, \h1F82, \h1F83, \h1F84, \h1F85, \h1F86,
       \h1F87, \h1F88, \h1F89, \h1F8A, \h1F8B, \h1F8C, \h1F8D, \h1F8E, \h1F8F, \h1F90,
       \h1F91, \h1F92, \h1F93, \h1F94, \h1F95, \h1F96, \h1F97, \h1F98, \h1F99, \h1F9A,
       \h1F9B, \h1F9C, \h1F9D, \h1F9E, \h1F9F, \h1FA0, \h1FA1, \h1FA2, \h1FA3, \h1FA4,
       \h1FA5, \h1FA6, \h1FA7, \h1FA8, \h1FA9, \h1FAA, \h1FAB, \h1FAC, \h1FAD, \h1FAE,
       \h1FAF, \h1FB0, \h1FB1, \h1FB2, \h1FB3, \h1FB4, \h1FB6, \h1FB7, \h1FBC, \h1FBE,
       \h1FC2, \h1FC3, \h1FC4, \h1FC6, \h1FC7, \h1FCC, \h1FD0, \h1FD1, \h1FD2, \h1FD3,
       \h1FD6, \h1FD7, \h1FE0, \h1FE1, \h1FE2, \h1FE3, \h1FE4, \h1FE5, \h1FE6, \h1FE7,
       \h1FF2, \h1FF3, \h1FF4, \h1FF6, \h1FF7, \h1FFC, \h214E, \h2170, \h2171, \h2172,
       \h2173, \h2174, \h2175, \h2176, \h2177, \h2178, \h2179, \h217A, \h217B, \h217C,
       \h217D, \h217E, \h217F, \h2184, \h24D0, \h24D1, \h24D2, \h24D3, \h24D4, \h24D5,
       \h24D6, \h24D7, \h24D8, \h24D9, \h24DA, \h24DB, \h24DC, \h24DD, \h24DE, \h24DF,
       \h24E0, \h24E1, \h24E2, \h24E3, \h24E4, \h24E5, \h24E6, \h24E7, \h24E8, \h24E9,
       \h2C30, \h2C31, \h2C32, \h2C33, \h2C34, \h2C35, \h2C36, \h2C37, \h2C38, \h2C39,
       \h2C3A, \h2C3B, \h2C3C, \h2C3D, \h2C3E, \h2C3F, \h2C40, \h2C41, \h2C42, \h2C43,
       \h2C44, \h2C45, \h2C46, \h2C47, \h2C48, \h2C49, \h2C4A, \h2C4B, \h2C4C, \h2C4D,
       \h2C4E, \h2C4F, \h2C50, \h2C51, \h2C52, \h2C53, \h2C54, \h2C55, \h2C56, \h2C57,
       \h2C58, \h2C59, \h2C5A, \h2C5B, \h2C5C, \h2C5D, \h2C5E, \h2C5F, \h2C61, \h2C65,
       \h2C66, \h2C68, \h2C6A, \h2C6C, \h2C73, \h2C76, \h2C81, \h2C83, \h2C85, \h2C87,
       \h2C89, \h2C8B, \h2C8D, \h2C8F, \h2C91, \h2C93, \h2C95, \h2C97, \h2C99, \h2C9B,
       \h2C9D, \h2C9F, \h2CA1, \h2CA3, \h2CA5, \h2CA7, \h2CA9, \h2CAB, \h2CAD, \h2CAF,
       \h2CB1, \h2CB3, \h2CB5, \h2CB7, \h2CB9, \h2CBB, \h2CBD, \h2CBF, \h2CC1, \h2CC3,
       \h2CC5, \h2CC7, \h2CC9, \h2CCB, \h2CCD, \h2CCF, \h2CD1, \h2CD3, \h2CD5, \h2CD7,
       \h2CD9, \h2CDB, \h2CDD, \h2CDF, \h2CE1, \h2CE3, \h2CEC, \h2CEE, \h2CF3, \h2D00,
       \h2D01, \h2D02, \h2D03, \h2D04, \h2D05, \h2D06, \h2D07, \h2D08, \h2D09, \h2D0A,
       \h2D0B, \h2D0C, \h2D0D, \h2D0E, \h2D0F, \h2D10, \h2D11, \h2D12, \h2D13, \h2D14,
       \h2D15, \h2D16, \h2D17, \h2D18, \h2D19, \h2D1A, \h2D1B, \h2D1C, \h2D1D, \h2D1E,
       \h2D1F, \h2D20, \h2D21, \h2D22, \h2D23, \h2D24, \h2D25, \h2D27, \h2D2D, \hA641,
       \hA643, \hA645, \hA647, \hA649, \hA64B, \hA64D, \hA64F, \hA651, \hA653, \hA655,
       \hA657, \hA659, \hA65B, \hA65D, \hA65F, \hA661, \hA663, \hA665, \hA667, \hA669,
       \hA66B, \hA66D, \hA681, \hA683, \hA685, \hA687, \hA689, \hA68B, \hA68D, \hA68F,
       \hA691, \hA693, \hA695, \hA697, \hA699, \hA69B, \hA723, \hA725, \hA727, \hA729,
       \hA72B, \hA72D, \hA72F, \hA733, \hA735, \hA737, \hA739, \hA73B, \hA73D, \hA73F,
       \hA741, \hA743, \hA745, \hA747, \hA749, \hA74B, \hA74D, \hA74F, \hA751, \hA753,
       \hA755, \hA757, \hA759, \hA75B, \hA75D, \hA75F, \hA761, \hA763, \hA765, \hA767,
       \hA769, \hA76B, \hA76D, \hA76F, \hA77A, \hA77C, \hA77F, \hA781, \hA783, \hA785,
       \hA787, \hA78C, \hA791, \hA793, \hA794, \hA797, \hA799, \hA79B, \hA79D, \hA79F,
       \hA7A1, \hA7A3, \hA7A5, \hA7A7, \hA7A9, \hA7B5, \hA7B7, \hA7B9, \hA7BB, \hA7BD,
       \hA7BF, \hA7C1, \hA7C3, \hA7C8, \hA7CA, \hA7CD, \hA7CF, \hA7D1, \hA7D3, \hA7D5,
       \hA7D7, \hA7D9, \hA7DB, \hA7F6, \hAB53, \hAB70, \hAB71, \hAB72, \hAB73, \hAB74,
       \hAB75, \hAB76, \hAB77, \hAB78, \hAB79, \hAB7A, \hAB7B, \hAB7C, \hAB7D, \hAB7E,
       \hAB7F, \hAB80, \hAB81, \hAB82, \hAB83, \hAB84, \hAB85, \hAB86, \hAB87, \hAB88,
       \hAB89, \hAB8A, \hAB8B, \hAB8C, \hAB8D, \hAB8E, \hAB8F, \hAB90, \hAB91, \hAB92,
       \hAB93, \hAB94, \hAB95, \hAB96, \hAB97, \hAB98, \hAB99, \hAB9A, \hAB9B, \hAB9C,
       \hAB9D, \hAB9E, \hAB9F, \hABA0, \hABA1, \hABA2, \hABA3, \hABA4, \hABA5, \hABA6,
       \hABA7, \hABA8, \hABA9, \hABAA, \hABAB, \hABAC, \hABAD, \hABAE, \hABAF, \hABB0,
       \hABB1, \hABB2, \hABB3, \hABB4, \hABB5, \hABB6, \hABB7, \hABB8, \hABB9, \hABBA,
       \hABBB, \hABBC, \hABBD, \hABBE, \hABBF, \hFB00, \hFB01, \hFB02, \hFB03, \hFB04,
       \hFB05, \hFB06, \hFB13, \hFB14, \hFB15, \hFB16, \hFB17, \hFF41, \hFF42, \hFF43,
       \hFF44, \hFF45, \hFF46, \hFF47, \hFF48, \hFF49, \hFF4A, \hFF4B, \hFF4C, \hFF4D,
       \hFF4E, \hFF4F, \hFF50, \hFF51, \hFF52, \hFF53, \hFF54, \hFF55, \hFF56, \hFF57,
       \hFF58, \hFF59, \hFF5A, \h10428, \h10429, \h1042A, \h1042B, \h1042C, \h1042D, \h1042E,
       \h1042F, \h10430, \h10431, \h10432, \h10433, \h10434, \h10435, \h10436, \h10437, \h10438,
       \h10439, \h1043A, \h1043B, \h1043C, \h1043D, \h1043E, \h1043F, \h10440, \h10441, \h10442,
       \h10443, \h10444, \h10445, \h10446, \h10447, \h10448, \h10449, \h1044A, \h1044B, \h1044C,
       \h1044D, \h1044E, \h1044F, \h104D8, \h104D9, \h104DA, \h104DB, \h104DC, \h104DD, \h104DE,
       \h104DF, \h104E0, \h104E1, \h104E2, \h104E3, \h104E4, \h104E5, \h104E6, \h104E7, \h104E8,
       \h104E9, \h104EA, \h104EB, \h104EC, \h104ED, \h104EE, \h104EF, \h104F0, \h104F1, \h104F2,
       \h104F3, \h104F4, \h104F5, \h104F6, \h104F7, \h104F8, \h104F9, \h104FA, \h104FB, \h10597,
       \h10598, \h10599, \h1059A, \h1059B, \h1059C, \h1059D, \h1059E, \h1059F, \h105A0, \h105A1,
       \h105A3, \h105A4, \h105A5, \h105A6, \h105A7, \h105A8, \h105A9, \h105AA, \h105AB, \h105AC,
       \h105AD, \h105AE, \h105AF, \h105B0, \h105B1, \h105B3, \h105B4, \h105B5, \h105B6, \h105B7,
       \h105B8, \h105B9, \h105BB, \h105BC, \h10CC0, \h10CC1, \h10CC2, \h10CC3, \h10CC4, \h10CC5,
       \h10CC6, \h10CC7, \h10CC8, \h10CC9, \h10CCA, \h10CCB, \h10CCC, \h10CCD, \h10CCE, \h10CCF,
       \h10CD0, \h10CD1, \h10CD2, \h10CD3, \h10CD4, \h10CD5, \h10CD6, \h10CD7, \h10CD8, \h10CD9,
       \h10CDA, \h10CDB, \h10CDC, \h10CDD, \h10CDE, \h10CDF, \h10CE0, \h10CE1, \h10CE2, \h10CE3,
       \h10CE4, \h10CE5, \h10CE6, \h10CE7, \h10CE8, \h10CE9, \h10CEA, \h10CEB, \h10CEC, \h10CED,
       \h10CEE, \h10CEF, \h10CF0, \h10CF1, \h10CF2, \h10D70, \h10D71, \h10D72, \h10D73, \h10D74,
       \h10D75, \h10D76, \h10D77, \h10D78, \h10D79, \h10D7A, \h10D7B, \h10D7C, \h10D7D, \h10D7E,
       \h10D7F, \h10D80, \h10D81, \h10D82, \h10D83, \h10D84, \h10D85, \h118C0, \h118C1, \h118C2,
       \h118C3, \h118C4, \h118C5, \h118C6, \h118C7, \h118C8, \h118C9, \h118CA, \h118CB, \h118CC,
       \h118CD, \h118CE, \h118CF, \h118D0, \h118D1, \h118D2, \h118D3, \h118D4, \h118D5, \h118D6,
       \h118D7, \h118D8, \h118D9, \h118DA, \h118DB, \h118DC, \h118DD, \h118DE, \h118DF, \h16E60,
       \h16E61, \h16E62, \h16E63, \h16E64, \h16E65, \h16E66, \h16E67, \h16E68, \h16E69, \h16E6A,
       \h16E6B, \h16E6C, \h16E6D, \h16E6E, \h16E6F, \h16E70, \h16E71, \h16E72, \h16E73, \h16E74,
       \h16E75, \h16E76, \h16E77, \h16E78, \h16E79, \h16E7A, \h16E7B, \h16E7C, \h16E7D, \h16E7E,
       \h16E7F, \h16EBB, \h16EBC, \h16EBD, \h16EBE, \h16EBF, \h16EC0, \h16EC1, \h16EC2, \h16EC3,
       \h16EC4, \h16EC5, \h16EC6, \h16EC7, \h16EC8, \h16EC9, \h16ECA, \h16ECB, \h16ECC, \h16ECD,
       \h16ECE, \h16ECF, \h16ED0, \h16ED1, \h16ED2, \h16ED3, \h1E922, \h1E923, \h1E924, \h1E925,
       \h1E926, \h1E927, \h1E928, \h1E929, \h1E92A, \h1E92B, \h1E92C, \h1E92D, \h1E92E, \h1E92F,
       \h1E930, \h1E931, \h1E932, \h1E933, \h1E934, \h1E935, \h1E936, \h1E937, \h1E938, \h1E939,
       \h1E93A, \h1E93B, \h1E93C, \h1E93D, \h1E93E, \h1E93F, \h1E940, \h1E941, \h1E942, \h1E943 >>

\* what char::to_uppercase gives for each of them, in the same order
RaisedChars ==
    << <<\h0041>>, <<\h0042>>, <<\h0043>>, <<\h0044>>, <<\h0045>>, <<\h0046>>, <<\h0047>>,
       <<\h0048>>, <<\h0049>>, <<\h004A>>, <<\h004B>>, <<\h004C>>, <<\h004D>>, <<\h004E>>,
       <<\h004F>>, <<\h0050>>, <<\h0051>>, <<\h0052>>, <<\h0053>>, <<\h0054>>, <<\h0055>>,
       <<\h0056>>, <<\h0057>>, <<\h0058>>, <<\h0059>>, <<\h005A>>, <<\h039C>>, <<\h0053, \h0053>>,
       <<\h00C0>>, <<\h00C1>>, <<\h00C2>>, <<\h00C3>>, <<\h00C4>>, <<\h00C5>>, <<\h00C6>>,
       <<\h00C7>>, <<\h00C8>>, <<\h00C9>>, <<\h00CA>>, <<\h00CB>>, <<\h00CC>>, <<\h00CD>>,
       <<\h00CE>>, <<\h00CF>>, <<\h00D0>>, <<\h00D1>>, <<\h00D2>>, <<\h00D3>>, <<\h00D4>>,
       <<\h00D5>>, <<\h00D6>>, <<\h00D8>>, <<\h00D9>>, <<\h00DA>>, <<\h00DB>>, <<\h00DC>>,
       <<\h00DD>>, <<\h00DE>>, <<\h0178>>, <<\h0100>>, <<\h0102>>, <<\h0104>>, <<\h0106>>,
       <<\h0108>>, <<\h010A>>, <<\h010C>>, <<\h010E>>, <<\h0110>>, <<\h0112>>, <<\h0114>>,
       <<\h0116>>, <<\h0118>>, <<\h011A>>, <<\h011C>>, <<\h011E>>, <<\h0120>>, <<\h0122>>,
       <<\h0124>>, <<\h0126>>, <<\h0128>>, <<\h012A>>, <<\h012C>>, <<\h012E>>, <<\h0049>>,
       <<\h0132>>, <<\h0134>>, <<\h0136>>, <<\h0139>>, <<\h013B>>, <<\h013D>>, <<\h013F>>,
       <<\h0141>>, <<\h0143>>, <<\h0145>>, <<\h0147>>, <<\h02BC, \h004E>>, <<\h014A>>, <<\h014C>>,
       <<\h014E>>, <<\h0150>>, <<\h0152>>, <<\h0154>>, <<\h0156>>, <<\h0158>>, <<\h015A>>,
       <<\h015C>>, <<\h015E>>, <<\h0160>>, <<\h0162>>, <<\h0164>>, <<\h0166>>, <<\h0168>>,
       <<\h016A>>, <<\h016C>>, <<\h016E>>, <<\h0170>>, <<\h0172>>, <<\h0174>>, <<\h0176>>,
       <<\h0179>>, <<\h017B>>, <<\h017D>>, <<\h0053>>, <<\h0243>>, <<\h0182>>, <<\h0184>>,
       <<\h0187>>, <<\h018B>>, <<\h0191>>, <<\h01F6>>, <<\h0198>>, <<\h023D>>, <<\hA7DC>>,
       <<\h0220>>, <<\h01A0>>, <<\h01A2>>, <<\h01A4>>, <<\h01A7>>, <<\h01AC>>, <<\h01AF>>,
       <<\h01B3>>, <<\h01B5>>, <<\h01B8>>, <<\h01BC>>, <<\h01F7>>, <<\h01C4>>, <<\h01C4>>,
       <<\h01C7>>, <<\h01C7>>, <<\h01CA>>, <<\h01CA>>, <<\h01CD>>, <<\h01CF>>, <<\h01D1>>,
       <<\h01D3>>, <<\h01D5>>, <<\h01D7>>, <<\h01D9>>, <<\h01DB>>, <<\h018E>>, <<\h01DE>>,
       <<\h01E0>>, <<\h01E2>>, <<\h01E4>>, <<\h01E6>>, <<\h01E8>>, <<\h01EA>>, <<\h01EC>>,
       <<\h01EE>>, <<\h004A, \h030C>>, <<\h01F1>>, <<\h01F1>>, <<\h01F4>>, <<\h01F8>>, <<\h01FA>>,
       <<\h01FC>>, <<\h01FE>>, <<\h0200>>, <<\h0202>>, <<\h0204>>, <<\h0206>>, <<\h0208>>,
       <<\h020A>>, <<\h020C>>, <<\h020E>>, <<\h0210>>, <<\h0212>>, <<\h0214>>, <<\h0216>>,
       <<\h0218>>, <<\h021A>>, <<\h021C>>, <<\h021E>>, <<\h0222>>, <<\h0224>>, <<\h0226>>,
       <<\h0228>>, <<\h022A>>, <<\h022C>>, <<\h022E>>, <<\h0230>>, <<\h0232>>, <<\h023B>>,
       <<\h2C7E>>, <<\h2C7F>>, <<\h0241>>, <<\h0246>>, <<\h0248>>, <<\h024A>>, <<\h024C>>,
       <<\h024E>>, <<\h2C6F>>, <<\h2C6D>>, <<\h2C70>>, <<\h0181>>, <<\h0186>>, <<\h0189>>,
       <<\h018A>>, <<\h018F>>, <<\h0190>>, <<\hA7AB>>, <<\h0193>>, <<\hA7AC>>, <<\h0194>>,
       <<\hA7CB>>, <<\hA78D>>, <<\hA7AA>>, <<\h0197>>, <<\h0196>>, <<\hA7AE>>, <<\h2C62>>,
       <<\hA7AD>>, <<\h019C>>, <<\h2C6E>>, <<\h019D>>, <<\h019F>>, <<\h2C64>>, <<\h01A6>>,
       <<\hA7C5>>, <<\h01A9>>, <<\hA7B1>>, <<\h01AE>>, <<\h0244>>, <<\h01B1>>, <<\h01B2>>,
       <<\h0245>>, <<\h01B7>>, <<\hA7B2>>, <<\hA7B0>>, <<\h0399>>, <<\h0370>>, <<\h0372>>,
       <<\h0376>>, <<\h03FD>>, <<\h03FE>>, <<\h03FF>>, <<\h0399, \h0308, \h0301>>, <<\h0386>>, <<\h0388>>,
       <<\h0389>>, <<\h038A>>, <<\h03A5, \h0308, \h0301>>, <<\h0391>>, <<\h0392>>, <<\h0393>>, <<\h0394>>,
       <<\h0395>>, <<\h0396>>, <<\h0397>>, <<\h0398>>, <<\h0399>>, <<\h039A>>, <<\h039B>>,
       <<\h039C>>, <<\h039D>>, <<\h039E>>, <<\h039F>>, <<\h03A0>>, <<\h03A1>>, <<\h03A3>>,
       <<\h03A3>>, <<\h03A4>>, <<\h03A5>>, <<\h03A6>>, <<\h03A7>>, <<\h03A8>>, <<\h03A9>>,
       <<\h03AA>>, <<\h03AB>>, <<\h038C>>, <<\h038E>>, <<\h038F>>, <<\h0392>>, <<\h0398>>,
       <<\h03A6>>, <<\h03A0>>, <<\h03CF>>, <<\h03D8>>, <<\h03DA>>, <<\h03DC>>, <<\h03DE>>,
       <<\h03E0>>, <<\h03E2>>, <<\h03E4>>, <<\h03E6>>, <<\h03E8>>, <<\h03EA>>, <<\h03EC>>,
       <<\h03EE>>, <<\h039A>>, <<\h03A1>>, <<\h03F9>>, <<\h037F>>, <<\h0395>>, <<\h03F7>>,
       <<\h03FA>>, <<\h0410>>, <<\h0411>>, <<\h0412>>, <<\h0413>>, <<\h0414>>, <<\h0415>>,
       <<\h0416>>, <<\h0417>>, <<\h0418>>, <<\h0419>>, <<\h041A>>, <<\h041B>>, <<\h041C>>,
       <<\h041D>>, <<\h041E>>, <<\h041F>>, <<\h0420>>, <<\h0421>>, <<\h0422>>, <<\h0423>>,
       <<\h0424>>, <<\h0425>>, <<\h0426>>, <<\h0427>>, <<\h0428>>, <<\h0429>>, <<\h042A>>,
       <<\h042B>>, <<\h042C>>, <<\h042D>>, <<\h042E>>, <<\h042F>>, <<\h0400>>, <<\h0401>>,
       <<\h0402>>, <<\h0403>>, <<\h0404>>, <<\h0405>>, <<\h0406>>, <<\h0407>>, <<\h0408>>,
       <<\h0409>>, <<\h040A>>, <<\h040B>>, <<\h040C>>, <<\h040D>>, <<\h040E>>, <<\h040F>>,
       <<\h0460>>, <<\h0462>>, <<\h0464>>, <<\h0466>>, <<\h0468>>, <<\h046A>>, <<\h046C>>,
       <<\h046E>>, <<\h0470>>, <<\h0472>>, <<\h0474>>, <<\h0476>>, <<\h0478>>, <<\h047A>>,
       <<\h047C>>, <<\h047E>>, <<\h0480>>, <<\h048A>>, <<\h048C>>, <<\h048E>>, <<\h0490>>,
       <<\h0492>>, <<\h0494>>, <<\h0496>>, <<\h0498>>, <<\h049A>>, <<\h049C>>, <<\h049E>>,
       <<\h04A0>>, <<\h04A2>>, <<\h04A4>>, <<\h04A6>>, <<\h04A8>>, <<\h04AA>>, <<\h04AC>>,
       <<\h04AE>>, <<\h04B0>>, <<\h04B2>>, <<\h04B4>>, <<\h04B6>>, <<\h04B8>>, <<\h04BA>>,
       <<\h04BC>>, <<\h04BE>>, <<\h04C1>>, <<\h04C3>>, <<\h04C5>>, <<\h04C7>>, <<\h04C9>>,
       <<\h04CB>>, <<\h04CD>>, <<\h04C0>>, <<\h04D0>>, <<\h04D2>>, <<\h04D4>>, <<\h04D6>>,
       <<\h04D8>>, <<\h04DA>>, <<\h04DC>>, <<\h04DE>>, <<\h04E0>>, <<\h04E2>>, <<\h04E4>>,
       <<\h04E6>>, <<\h04E8>>, <<\h04EA>>, <<\h04EC>>, <<\h04EE>>, <<\h04F0>>, <<\h04F2>>,
       <<\h04F4>>, <<\h04F6>>, <<\h04F8>>, <<\h04FA>>, <<\h04FC>>, <<\h04FE>>, <<\h0500>>,
       <<\h0502>>, <<\h0504>>, <<\h0506>>, <<\h0508>>, <<\h050A>>, <<\h050C>>, <<\h050E>>,
       <<\h0510>>, <<\h0512>>, <<\h0514>>, <<\h0516>>, <<\h0518>>, <<\h051A>>, <<\h051C>>,
       <<\h051E>>, <<\h0520>>, <<\h0522>>, <<\h0524>>, <<\h0526>>, <<\h0528>>, <<\h052A>>,
       <<\h052C>>, <<\h052E>>, <<\h0531>>, <<\h0532>>, <<\h0533>>, <<\h0534>>, <<\h0535>>,
       <<\h0536>>, <<\h0537>>, <<\h0538>>, <<\h0539>>, <<\h053A>>, <<\h053B>>, <<\h053C>>,
       <<\h053D>>, <<\h053E>>, <<\h053F>>, <<\h0540>>, <<\h0541>>, <<\h0542>>, <<\h0543>>,
       <<\h0544>>, <<\h0545>>, <<\h0546>>, <<\h0547>>, <<\h0548>>, <<\h0549>>, <<\h054A>>,
       <<\h054B>>, <<\h054C>>, <<\h054D>>, <<\h054E>>, <<\h054F>>, <<\h0550>>, <<\h0551>>,
       <<\h0552>>, <<\h0553>>, <<\h0554>>, <<\h0555>>, <<\h0556>>, <<\h0535, \h0552>>, <<\h1C90>>,
       <<\h1C91>>, <<\h1C92>>, <<\h1C93>>, <<\h1C94>>, <<\h1C95>>, <<\h1C96>>, <<\h1C97>>,
       <<\h1C98>>, <<\h1C99>>, <<\h1C9A>>, <<\h1C9B>>, <<\h1C9C>>, <<\h1C9D>>, <<\h1C9E>>,
       <<\h1C9F>>, <<\h1CA0>>, <<\h1CA1>>, <<\h1CA2>>, <<\h1CA3>>, <<\h1CA4>>, <<\h1CA5>>,
       <<\h1CA6>>, <<\h1CA7>>, <<\h1CA8>>, <<\h1CA9>>, <<\h1CAA>>, <<\h1CAB>>, <<\h1CAC>>,
       <<\h1CAD>>, <<\h1CAE>>, <<\h1CAF>>, <<\h1CB0>>, <<\h1CB1>>, <<\h1CB2>>, <<\h1CB3>>,
       <<\h1CB4>>, <<\h1CB5>>, <<\h1CB6>>, <<\h1CB7>>, <<\h1CB8>>, <<\h1CB9>>, <<\h1CBA>>,
       <<\h1CBD>>, <<\h1CBE>>, <<\h1CBF>>, <<\h13F0>>, <<\h13F1>>, <<\h13F2>>, <<\h13F3>>,
       <<\h13F4>>, <<\h13F5>>, <<\h0412>>, <<\h0414>>, <<\h041E>>, <<\h0421>>, <<\h0422>>,
       <<\h0422>>, <<\h042A>>, <<\h0462>>, <<\hA64A>>, <<\h1C89>>, <<\hA77D>>, <<\h2C63>>,
       <<\hA7C6>>, <<\h1E00>>, <<\h1E02>>, <<\h1E04>>, <<\h1E06>>, <<\h1E08>>, <<\h1E0A>>,
       <<\h1E0C>>, <<\h1E0E>>, <<\h1E10>>, <<\h1E12>>, <<\h1E14>>, <<\h1E16>>, <<\h1E18>>,
       <<\h1E1A>>, <<\h1E1C>>, <<\h1E1E>>, <<\h1E20>>, <<\h1E22>>, <<\h1E24>>, <<\h1E26>>,
       <<\h1E28>>, <<\h1E2A>>, <<\h1E2C>>, <<\h1E2E>>, <<\h1E30>>, <<\h1E32>>, <<\h1E34>>,
       <<\h1E36>>, <<\h1E38>>, <<\h1E3A>>, <<\h1E3C>>, <<\h1E3E>>, <<\h1E40>>, <<\h1E42>>,
       <<\h1E44>>, <<\h1E46>>, <<\h1E48>>, <<\h1E4A>>, <<\h1E4C>>, <<\h1E4E>>, <<\h1E50>>,
       <<\h1E52>>, <<\h1E54>>, <<\h1E56>>, <<\h1E58>>, <<\h1E5A>>, <<\h1E5C>>, <<\h1E5E>>,
       <<\h1E60>>, <<\h1E62>>, <<\h1E64>>, <<\h1E66>>, <<\h1E68>>, <<\h1E6A>>, <<\h1E6C>>,
       <<\h1E6E>>, <<\h1E70>>, <<\h1E72>>, <<\h1E74>>, <<\h1E76>>, <<\h1E78>>, <<\h1E7A>>,
       <<\h1E7C>>, <<\h1E7E>>, <<\h1E80>>, <<\h1E82>>, <<\h1E84>>, <<\h1E86>>, <<\h1E88>>,
       <<\h1E8A>>, <<\h1E8C>>, <<\h1E8E>>, <<\h1E90>>, <<\h1E92>>, <<\h1E94>>, <<\h0048, \h0331>>,
       <<\h0054, \h0308>>, <<\h0057, \h030A>>, <<\h0059, \h030A>>, <<\h0041, \h02BE>>, <<\h1E60>>, <<\h1EA0>>, <<\h1EA2>>,
       <<\h1EA4>>, <<\h1EA6>>, <<\h1EA8>>, <<\h1EAA>>, <<\h1EAC>>, <<\h1EAE>>, <<\h1EB0>>,
       <<\h1EB2>>, <<\h1EB4>>, <<\h1EB6>>, <<\h1EB8>>, <<\h1EBA>>, <<\h1EBC>>, <<\h1EBE>>,
       <<\h1EC0>>, <<\h1EC2>>, <<\h1EC4>>, <<\h1EC6>>, <<\h1EC8>>, <<\h1ECA>>, <<\h1ECC>>,
       <<\h1ECE>>, <<\h1ED0>>, <<\h1ED2>>, <<\h1ED4>>, <<\h1ED6>>, <<\h1ED8>>, <<\h1EDA>>,
       <<\h1EDC>>, <<\h1EDE>>, <<\h1EE0>>, <<\h1EE2>>, <<\h1EE4>>, <<\h1EE6>>, <<\h1EE8>>,
       <<\h1EEA>>, <<\h1EEC>>, <<\h1EEE>>, <<\h1EF0>>, <<\h1EF2>>, <<\h1EF4>>, <<\h1EF6>>,
       <<\h1EF8>>, <<\h1EFA>>, <<\h1EFC>>, <<\h1EFE>>, <<\h1F08>>, <<\h1F09>>, <<\h1F0A>>,
       <<\h1F0B>>, <<\h1F0C>>, <<\h1F0D>>, <<\h1F0E>>, <<\h1F0F>>, <<\h1F18>>, <<\h1F19>>,
       <<\h1F1A>>, <<\h1F1B>>, <<\h1F1C>>, <<\h1F1D>>, <<\h1F28>>, <<\h1F29>>, <<\h1F2A>>,
       <<\h1F2B>>, <<\h1F2C>>, <<\h1F2D>>, <<\h1F2E>>, <<\h1F2F>>, <<\h1F38>>, <<\h1F39>>,
       <<\h1F3A>>, <<\h1F3B>>, <<\h1F3C>>, <<\h1F3D>>, <<\h1F3E>>, <<\h1F3F>>, <<\h1F48>>,
       <<\h1F49>>, <<\h1F4A>>, <<\h1F4B>>, <<\h1F4C>>, <<\h1F4D>>, <<\h03A5, \h0313>>, <<\h1F59>>,
       <<\h03A5, \h0313, \h0300>>, <<\h1F5B>>, <<\h03A5, \h0313, \h0301>>, <<\h1F5D>>, <<\h03A5, \h0313, \h0342>>, <<\h1F5F>>, <<\h1F68>>,
       <<\h1F69>>, <<\h1F6A>>, <<\h1F6B>>, <<\h1F6C>>, <<\h1F6D>>, <<\h1F6E>>, <<\h1F6F>>,
       <<\h1FBA>>, <<\h1FBB>>, <<\h1FC8>>, <<\h1FC9>>, <<\h1FCA>>, <<\h1FCB>>, <<\h1FDA>>,
       <<\h1FDB>>, <<\h1FF8>>, <<\h1FF9>>, <<\h1FEA>>, <<\h1FEB>>, <<\h1FFA>>, <<\h1FFB>>,
       <<\h1F08, \h0399>>, <<\h1F09, \h0399>>, <<\h1F0A, \h0399>>, <<\h1F0B, \h0399>>, <<\h1F0C, \h0399>>, <<\h1F0D, \h0399>>, <<\h1F0E, \h0399>>,
       <<\h1F0F, \h0399>>, <<\h1F08, \h0399>>, <<\h1F09, \h0399>>, <<\h1F0A, \h0399>>, <<\h1F0B, \h0399>>, <<\h1F0C, \h0399>>, <<\h1F0D, \h0399>>,
       <<\h1F0E, \h0399>>, <<\h1F0F, \h0399>>, <<\h1F28, \h0399>>, <<\h1F29, \h0399>>, <<\h1F2A, \h0399>>, <<\h1F2B, \h0399>>, <<\h1F2C, \h0399>>,
       <<\h1F2D, \h0399>>, <<\h1F2E, \h0399>>, <<\h1F2F, \h0399>>, <<\h1F28, \h0399>>, <<\h1F29, \h0399>>, <<\h1F2A, \h0399>>, <<\h1F2B, \h0399>>,
       <<\h1F2C, \h0399>>, <<\h1F2D, \h0399>>, <<\h1F2E, \h0399>>, <<\h1F2F, \h0399>>, <<\h1F68, \h0399>>, <<\h1F69, \h0399>>, <<\h1F6A, \h0399>>,
       <<\h1F6B, \h0399>>, <<\h1F6C, \h0399>>, <<\h1F6D, \h0399>>, <<\h1F6E, \h0399>>, <<\h1F6F, \h0399>>, <<\h1F68, \h0399>>, <<\h1F69, \h0399>>,
       <<\h1F6A, \h0399>>, <<\h1F6B, \h0399>>, <<\h1F6C, \h0399>>, <<\h1F6D, \h0399>>, <<\h1F6E, \h0399>>, <<\h1F6F, \h0399>>, <<\h1FB8>>,
       <<\h1FB9>>, <<\h1FBA, \h0399>>, <<\h0391, \h0399>>, <<\h0386, \h0399>>, <<\h0391, \h0342>>, <<\h0391, \h0342, \h0399>>, <<\h0391, \h0399>>,
       <<\h0399>>, <<\h1FCA, \h0399>>, <<\h0397, \h0399>>, <<\h0389, \h0399>>, <<\h0397, \h0342>>, <<\h0397, \h0342, \h0399>>, <<\h0397, \h0399>>,
       <<\h1FD8>>, <<\h1FD9>>, <<\h0399, \h0308, \h0300>>, <<\h0399, \h0308, \h0301>>, <<\h0399, \h0342>>, <<\h0399, \h0308, \h0342>>, <<\h1FE8>>,
       <<\h1FE9>>, <<\h03A5, \h0308, \h0300>>, <<\h03A5, \h0308, \h0301>>, <<\h03A1, \h0313>>, <<\h1FEC>>, <<\h03A5, \h0342>>, <<\h03A5, \h0308, \h0342>>,
       <<\h1FFA, \h0399>>, <<\h03A9, \h0399>>, <<\h038F, \h0399>>, <<\h03A9, \h0342>>, <<\h03A9, \h0342, \h0399>>, <<\h03A9, \h0399>>, <<\h2132>>,
       <<\h2160>>, <<\h2161>>, <<\h2162>>, <<\h2163>>, <<\h2164>>, <<\h2165>>, <<\h2166>>,
       <<\h2167>>, <<\h2168>>, <<\h2169>>, <<\h216A>>, <<\h216B>>, <<\h216C>>, <<\h216D>>,
       <<\h216E>>, <<\h216F>>, <<\h2183>>, <<\h24B6>>, <<\h24B7>>, <<\h24B8>>, <<\h24B9>>,
       <<\h24BA>>, <<\h24BB>>, <<\h24BC>>, <<\h24BD>>, <<\h24BE>>, <<\h24BF>>, <<\h24C0>>,
       <<\h24C1>>, <<\h24C2>>, <<\h24C3>>, <<\h24C4>>, <<\h24C5>>, <<\h24C6>>, <<\h24C7>>,
       <<\h24C8>>, <<\h24C9>>, <<\h24CA>>, <<\h24CB>>, <<\h24CC>>, <<\h24CD>>, <<\h24CE>>,
       <<\h24CF>>, <<\h2C00>>, <<\h2C01>>, <<\h2C02>>, <<\h2C03>>, <<\h2C04>>, <<\h2C05>>,
       <<\h2C06>>, <<\h2C07>>, <<\h2C08>>, <<\h2C09>>, <<\h2C0A>>, <<\h2C0B>>, <<\h2C0C>>,
       <<\h2C0D>>, <<\h2C0E>>, <<\h2C0F>>, <<\h2C10>>, <<\h2C11>>, <<\h2C12>>, <<\h2C13>>,
       <<\h2C14>>, <<\h2C15>>, <<\h2C16>>, <<\h2C17>>, <<\h2C18>>, <<\h2C19>>, <<\h2C1A>>,
       <<\h2C1B>>, <<\h2C1C>>, <<\h2C1D>>, <<\h2C1E>>, <<\h2C1F>>, <<\h2C20>>, <<\h2C21>>,
       <<\h2C22>>, <<\h2C23>>, <<\h2C24>>, <<\h2C25>>, <<\h2C26>>, <<\h2C27>>, <<\h2C28>>,
       <<\h2C29>>, <<\h2C2A>>, <<\h2C2B>>, <<\h2C2C>>, <<\h2C2D>>, <<\h2C2E>>, <<\h2C2F>>,
       <<\h2C60>>, <<\h023A>>, <<\h023E>>, <<\h2C67>>, <<\h2C69>>, <<\h2C6B>>, <<\h2C72>>,
       <<\h2C75>>, <<\h2C80>>, <<\h2C82>>, <<\h2C84>>, <<\h2C86>>, <<\h2C88>>, <<\h2C8A>>,
       <<\h2C8C>>, <<\h2C8E>>, <<\h2C90>>, <<\h2C92>>, <<\h2C94>>, <<\h2C96>>, <<\h2C98>>,
       <<\h2C9A>>, <<\h2C9C>>, <<\h2C9E>>, <<\h2CA0>>, <<\h2CA2>>, <<\h2CA4>>, <<\h2CA6>>,
       <<\h2CA8>>, <<\h2CAA>>, <<\h2CAC>>, <<\h2CAE>>, <<\h2CB0>>, <<\h2CB2>>, <<\h2CB4>>,
       <<\h2CB6>>, <<\h2CB8>>, <<\h2CBA>>, <<\h2CBC>>, <<\h2CBE>>, <<\h2CC0>>, <<\h2CC2>>,
       <<\h2CC4>>, <<\h2CC6>>, <<\h2CC8>>, <<\h2CCA>>, <<\h2CCC>>, <<\h2CCE>>, <<\h2CD0>>,
       <<\h2CD2>>, <<\h2CD4>>, <<\h2CD6>>, <<\h2CD8>>, <<\h2CDA>>, <<\h2CDC>>, <<\h2CDE>>,
       <<\h2CE0>>, <<\h2CE2>>, <<\h2CEB>>, <<\h2CED>>, <<\h2CF2>>, <<\h10A0>>, <<\h10A1>>,
       <<\h10A2>>, <<\h10A3>>, <<\h10A4>>, <<\h10A5>>, <<\h10A6>>, <<\h10A7>>, <<\h10A8>>,
       <<\h10A9>>, <<\h10AA>>, <<\h10AB>>, <<\h10AC>>, <<\h10AD>>, <<\h10AE>>, <<\h10AF>>,
       <<\h10B0>>, <<\h10B1>>, <<\h10B2>>, <<\h10B3>>, <<\h10B4>>, <<\h10B5>>, <<\h10B6>>,
       <<\h10B7>>, <<\h10B8>>, <<\h10B9>>, <<\h10BA>>, <<\h10BB>>, <<\h10BC>>, <<\h10BD>>,
       <<\h10BE>>, <<\h10BF>>, <<\h10C0>>, <<\h10C1>>, <<\h10C2>>, <<\h10C3>>, <<\h10C4>>,
       <<\h10C5>>, <<\h10C7>>, <<\h10CD>>, <<\hA640>>, <<\hA642>>, <<\hA644>>, <<\hA646>>,
       <<\hA648>>, <<\hA64A>>, <<\hA64C>>, <<\hA64E>>, <<\hA650>>, <<\hA652>>, <<\hA654>>,
       <<\hA656>>, <<\hA658>>, <<\hA65A>>, <<\hA65C>>, <<\hA65E>>, <<\hA660>>, <<\hA662>>,
       <<\hA664>>, <<\hA666>>, <<\hA668>>, <<\hA66A>>, <<\hA66C>>, <<\hA680>>, <<\hA682>>,
       <<\hA684>>, <<\hA686>>, <<\hA688>>, <<\hA68A>>, <<\hA68C>>, <<\hA68E>>, <<\hA690>>,
       <<\hA692>>, <<\hA694>>, <<\hA696>>, <<\hA698>>, <<\hA69A>>, <<\hA722>>, <<\hA724>>,
       <<\hA726>>, <<\hA728>>, <<\hA72A>>, <<\hA72C>>, <<\hA72E>>, <<\hA732>>, <<\hA734>>,
       <<\hA736>>, <<\hA738>>, <<\hA73A>>, <<\hA73C>>, <<\hA73E>>, <<\hA740>>, <<\hA742>>,
       <<\hA744>>, <<\hA746>>, <<\hA748>>, <<\hA74A>>, <<\hA74C>>, <<\hA74E>>, <<\hA750>>,
       <<\hA752>>, <<\hA754>>, <<\hA756>>, <<\hA758>>, <<\hA75A>>, <<\hA75C>>, <<\hA75E>>,
       <<\hA760>>, <<\hA762>>, <<\hA764>>, <<\hA766>>, <<\hA768>>, <<\hA76A>>, <<\hA76C>>,
       <<\hA76E>>, <<\hA779>>, <<\hA77B>>, <<\hA77E>>, <<\hA780>>, <<\hA782>>, <<\hA784>>,
       <<\hA786>>, <<\hA78B>>, <<\hA790>>, <<\hA792>>, <<\hA7C4>>, <<\hA796>>, <<\hA798>>,
       <<\hA79A>>, <<\hA79C>>, <<\hA79E>>, <<\hA7A0>>, <<\hA7A2>>, <<\hA7A4>>, <<\hA7A6>>,
       <<\hA7A8>>, <<\hA7B4>>, <<\hA7B6>>, <<\hA7B8>>, <<\hA7BA>>, <<\hA7BC>>, <<\hA7BE>>,
       <<\hA7C0>>, <<\hA7C2>>, <<\hA7C7>>, <<\hA7C9>>, <<\hA7CC>>, <<\hA7CE>>, <<\hA7D0>>,
       <<\hA7D2>>, <<\hA7D4>>, <<\hA7D6>>, <<\hA7D8>>, <<\hA7DA>>, <<\hA7F5>>, <<\hA7B3>>,
       <<\h13A0>>, <<\h13A1>>, <<\h13A2>>, <<\h13A3>>, <<\h13A4>>, <<\h13A5>>, <<\h13A6>>,
       <<\h13A7>>, <<\h13A8>>, <<\h13A9>>, <<\h13AA>>, <<\h13AB>>, <<\h13AC>>, <<\h13AD>>,
       <<\h13AE>>, <<\h13AF>>, <<\h13B0>>, <<\h13B1>>, <<\h13B2>>, <<\h13B3>>, <<\h13B4>>,
       <<\h13B5>>, <<\h13B6>>, <<\h13B7>>, <<\h13B8>>, <<\h13B9>>, <<\h13BA>>, <<\h13BB>>,
       <<\h13BC>>, <<\h13BD>>, <<\h13BE>>, <<\h13BF>>, <<\h13C0>>, <<\h13C1>>, <<\h13C2>>,
       <<\h13C3>>, <<\h13C4>>, <<\h13C5>>, <<\h13C6>>, <<\h13C7>>, <<\h13C8>>, <<\h13C9>>,
       <<\h13CA>>, <<\h13CB>>, <<\h13CC>>, <<\h13CD>>, <<\h13CE>>, <<\h13CF>>, <<\h13D0>>,
       <<\h13D1>>, <<\h13D2>>, <<\h13D3>>, <<\h13D4>>, <<\h13D5>>, <<\h13D6>>, <<\h13D7>>,
       <<\h13D8>>, <<\h13D9>>, <<\h13DA>>, <<\h13DB>>, <<\h13DC>>, <<\h13DD>>, <<\h13DE>>,
       <<\h13DF>>, <<\h13E0>>, <<\h13E1>>, <<\h13E2>>, <<\h13E3>>, <<\h13E4>>, <<\h13E5>>,
       <<\h13E6>>, <<\h13E7>>, <<\h13E8>>, <<\h13E9>>, <<\h13EA>>, <<\h13EB>>, <<\h13EC>>,
       <<\h13ED>>, <<\h13EE>>, <<\h13EF>>, <<\h0046, \h0046>>, <<\h0046, \h0049>>, <<\h0046, \h004C>>, <<\h0046, \h0046, \h0049>>,
       <<\h0046, \h0046, \h004C>>, <<\h0053, \h0054>>, <<\h0053, \h0054>>, <<\h0544, \h0546>>, <<\h0544, \h0535>>, <<\h0544, \h053B>>, <<\h054E, \h0546>>,
       <<\h0544, \h053D>>, <<\hFF21>>, <<\hFF22>>, <<\hFF23>>, <<\hFF24>>, <<\hFF25>>, <<\hFF26>>,
       <<\hFF27>>, <<\hFF28>>, <<\hFF29>>, <<\hFF2A>>, <<\hFF2B>>, <<\hFF2C>>, <<\hFF2D>>,
       <<\hFF2E>>, <<\hFF2F>>, <<\hFF30>>, <<\hFF31>>, <<\hFF32>>, <<\hFF33>>, <<\hFF34>>,
       <<\hFF35>>, <<\hFF36>>, <<\hFF37>>, <<\hFF38>>, <<\hFF39>>, <<\hFF3A>>, <<\h10400>>,
       <<\h10401>>, <<\h10402>>, <<\h10403>>, <<\h10404>>, <<\h10405>>, <<\h10406>>, <<\h10407>>,
       <<\h10408>>, <<\h10409>>, <<\h1040A>>, <<\h1040B>>, <<\h1040C>>, <<\h1040D>>, <<\h1040E>>,
       <<\h1040F>>, <<\h10410>>, <<\h10411>>, <<\h10412>>, <<\h10413>>, <<\h10414>>, <<\h10415>>,
       <<\h10416>>, <<\h10417>>, <<\h10418>>, <<\h10419>>, <<\h1041A>>, <<\h1041B>>, <<\h1041C>>,
       <<\h1041D>>, <<\h1041E>>, <<\h1041F>>, <<\h10420>>, <<\h10421>>, <<\h10422>>, <<\h10423>>,
       <<\h10424>>, <<\h10425>>, <<\h10426>>, <<\h10427>>, <<\h104B0>>, <<\h104B1>>, <<\h104B2>>,
       <<\h104B3>>, <<\h104B4>>, <<\h104B5>>, <<\h104B6>>, <<\h104B7>>, <<\h104B8>>, <<\h104B9>>,
       <<\h104BA>>, <<\h104BB>>, <<\h104BC>>, <<\h104BD>>, <<\h104BE>>, <<\h104BF>>, <<\h104C0>>,
       <<\h104C1>>, <<\h104C2>>, <<\h104C3>>, <<\h104C4>>, <<\h104C5>>, <<\h104C6>>, <<\h104C7>>,
       <<\h104C8>>, <<\h104C9>>, <<\h104CA>>, <<\h104CB>>, <<\h104CC>>, <<\h104CD>>, <<\h104CE>>,
       <<\h104CF>>, <<\h104D0>>, <<\h104D1>>, <<\h104D2>>, <<\h104D3>>, <<\h10570>>, <<\h10571>>,
       <<\h10572>>, <<\h10573>>, <<\h10574>>, <<\h10575>>, <<\h10576>>, <<\h10577>>, <<\h10578>>,
       <<\h10579>>, <<\h1057A>>, <<\h1057C>>, <<\h1057D>>, <<\h1057E>>, <<\h1057F>>, <<\h10580>>,
       <<\h10581>>, <<\h10582>>, <<\h10583>>, <<\h10584>>, <<\h10585>>, <<\h10586>>, <<\h10587>>,
       <<\h10588>>, <<\h10589>>, <<\h1058A>>, <<\h1058C>>, <<\h1058D>>, <<\h1058E>>, <<\h1058F>>,
       <<\h10590>>, <<\h10591>>, <<\h10592>>, <<\h10594>>, <<\h10595>>, <<\h10C80>>, <<\h10C81>>,
       <<\h10C82>>, <<\h10C83>>, <<\h10C84>>, <<\h10C85>>, <<\h10C86>>, <<\h10C87>>, <<\h10C88>>,
       <<\h10C89>>, <<\h10C8A>>, <<\h10C8B>>, <<\h10C8C>>, <<\h10C8D>>, <<\h10C8E>>, <<\h10C8F>>,
       <<\h10C90>>, <<\h10C91>>, <<\h10C92>>, <<\h10C93>>, <<\h10C94>>, <<\h10C95>>, <<\h10C96>>,
       <<\h10C97>>, <<\h10C98>>, <<\h10C99>>, <<\h10C9A>>, <<\h10C9B>>, <<\h10C9C>>, <<\h10C9D>>,
       <<\h10C9E>>, <<\h10C9F>>, <<\h10CA0>>, <<\h10CA1>>, <<\h10CA2>>, <<\h10CA3>>, <<\h10CA4>>,
       <<\h10CA5>>, <<\h10CA6>>, <<\h10CA7>>, <<\h10CA8>>, <<\h10CA9>>, <<\h10CAA>>, <<\h10CAB>>,
       <<\h10CAC>>, <<\h10CAD>>, <<\h10CAE>>, <<\h10CAF>>, <<\h10CB0>>, <<\h10CB1>>, <<\h10CB2>>,
       <<\h10D50>>, <<\h10D51>>, <<\h10D52>>, <<\h10D53>>, <<\h10D54>>, <<\h10D55>>, <<\h10D56>>,
       <<\h10D57>>, <<\h10D58>>, <<\h10D59>>, <<\h10D5A>>, <<\h10D5B>>, <<\h10D5C>>, <<\h10D5D>>,
       <<\h10D5E>>, <<\h10D5F>>, <<\h10D60>>, <<\h10D61>>, <<\h10D62>>, <<\h10D63>>, <<\h10D64>>,
       <<\h10D65>>, <<\h118A0>>, <<\h118A1>>, <<\h118A2>>, <<\h118A3>>, <<\h118A4>>, <<\h118A5>>,
       <<\h118A6>>, <<\h118A7>>, <<\h118A8>>, <<\h118A9>>, <<\h118AA>>, <<\h118AB>>, <<\h118AC>>,
       <<\h118AD>>, <<\h118AE>>, <<\h118AF>>, <<\h118B0>>, <<\h118B1>>, <<\h118B2>>, <<\h118B3>>,
       <<\h118B4>>, <<\h118B5>>, <<\h118B6>>, <<\h118B7>>, <<\h118B8>>, <<\h118B9>>, <<\h118BA>>,
       <<\h118BB>>, <<\h118BC>>, <<\h118BD>>, <<\h118BE>>, <<\h118BF>>, <<\h16E40>>, <<\h16E41>>,
       <<\h16E42>>, <<\h16E43>>, <<\h16E44>>, <<\h16E45>>, <<\h16E46>>, <<\h16E47>>, <<\h16E48>>,
       <<\h16E49>>, <<\h16E4A>>, <<\h16E4B>>, <<\h16E4C>>, <<\h16E4D>>, <<\h16E4E>>, <<\h16E4F>>,
       <<\h16E50>>, <<\h16E51>>, <<\h16E52>>, <<\h16E53>>, <<\h16E54>>, <<\h16E55>>, <<\h16E56>>,
       <<\h16E57>>, <<\h16E58>>, <<\h16E59>>, <<\h16E5A>>, <<\h16E5B>>, <<\h16E5C>>, <<\h16E5D>>,
       <<\h16E5E>>, <<\h16E5F>>, <<\h16EA0>>, <<\h16EA1>>, <<\h16EA2>>, <<\h16EA3>>, <<\h16EA4>>,
       <<\h16EA5>>, <<\h16EA6>>, <<\h16EA7>>, <<\h16EA8>>, <<\h16EA9>>, <<\h16EAA>>, <<\h16EAB>>,
       <<\h16EAC>>, <<\h16EAD>>, <<\h16EAE>>, <<\h16EAF>>, <<\h16EB0>>, <<\h16EB1>>, <<\h16EB2>>,
       <<\h16EB3>>, <<\h16EB4>>, <<\h16EB5>>, <<\h16EB6>>, <<\h16EB7>>, <<\h16EB8>>, <<\h1E900>>,
       <<\h1E901>>, <<\h1E902>>, <<\h1E903>>, <<\h1E904>>, <<\h1E905>>, <<\h1E906>>, <<\h1E907>>,
       <<\h1E908>>, <<\h1E909>>, <<\h1E90A>>, <<\h1E90B>>, <<\h1E90C>>, <<\h1E90D>>, <<\h1E90E>>,
       <<\h1E90F>>, <<\h1E910>>, <<\h1E911>>, <<\h1E912>>, <<\h1E913>>, <<\h1E914>>, <<\h1E915>>,
       <<\h1E916>>, <<\h1E917>>, <<\h1E918>>, <<\h1E919>>, <<\h1E91A>>, <<\h1E91B>>, <<\h1E91C>>,
       <<\h1E91D>>, <<\h1E91E>>, <<\h1E91F>>, <<\h1E920>>, <<\h1E921>> >>

\* the ranges of the characters with the property Cased, each <<first, last>>
CasedRanges ==
    << <<\h0041, \h005A>>, <<\h0061, \h007A>>, <<\h00AA, \h00AA>>, <<\h00B5, \h00B5>>,
       <<\h00BA, \h00BA>>, <<\h00C0, \h00D6>>, <<\h00D8, \h00F6>>, <<\h00F8, \h01BA>>,
       <<\h01BC, \h01BF>>, <<\h01C4, \h0293>>, <<\h0296, \h02B8>>, <<\h02C0, \h02C1>>,
       <<\h02E0, \h02E4>>, <<\h0345, \h0345>>, <<\h0370, \h0373>>, <<\h0376, \h0377>>,
       <<\h037A, \h037D>>, <<\h037F, \h037F>>, <<\h0386, \h0386>>, <<\h0388, \h038A>>,
       <<\h038C, \h038C>>, <<\h038E, \h03A1>>, <<\h03A3, \h03F5>>, <<\h03F7, \h0481>>,
       <<\h048A, \h052F>>, <<\h0531, \h0556>>, <<\h0560, \h0588>>, <<\h10A0, \h10C5>>,
       <<\h10C7, \h10C7>>, <<\h10CD, \h10CD>>, <<\h10D0, \h10FA>>, <<\h10FC, \h10FF>>,
       <<\h13A0, \h13F5>>, <<\h13F8, \h13FD>>, <<\h1C80, \h1C8A>>, <<\h1C90, \h1CBA>>,
       <<\h1CBD, \h1CBF>>, <<\h1D00, \h1DBF>>, <<\h1E00, \h1F15>>, <<\h1F18, \h1F1D>>,
       <<\h1F20, \h1F45>>, <<\h1F48, \h1F4D>>, <<\h1F50, \h1F57>>, <<\h1F59, \h1F59>>,
       <<\h1F5B, \h1F5B>>, <<\h1F5D, \h1F5D>>, <<\h1F5F, \h1F7D>>, <<\h1F80, \h1FB4>>,
       <<\h1FB6, \h1FBC>>, <<\h1FBE, \h1FBE>>, <<\h1FC2, \h1FC4>>, <<\h1FC6, \h1FCC>>,
       <<\h1FD0, \h1FD3>>, <<\h1FD6, \h1FDB>>, <<\h1FE0, \h1FEC>>, <<\h1FF2, \h1FF4>>,
       <<\h1FF6, \h1FFC>>, <<\h2071, \h2071>>, <<\h207F, \h207F>>, <<\h2090, \h209C>>,
       <<\h2102, \h2102>>, <<\h2107, \h2107>>, <<\h210A, \h2113>>, <<\h2115, \h2115>>,
       <<\h2119, \h211D>>, <<\h2124, \h2124>>, <<\h2126, \h2126>>, <<\h2128, \h2128>>,
       <<\h212A, \h212D>>, <<\h212F, \h2134>>, <<\h2139, \h2139>>, <<\h213C, \h213F>>,
       <<\h2145, \h2149>>, <<\h214E, \h214E>>, <<\h2160, \h217F>>, <<\h2183, \h2184>>,
       <<\h24B6, \h24E9>>, <<\h2C00, \h2CE4>>, <<\h2CEB, \h2CEE>>, <<\h2CF2, \h2CF3>>,
       <<\h2D00, \h2D25>>, <<\h2D27, \h2D27>>, <<\h2D2D, \h2D2D>>, <<\hA640, \hA66D>>,
       <<\hA680, \hA69D>>, <<\hA722, \hA787>>, <<\hA78B, \hA78E>>, <<\hA790, \hA7DC>>,
       <<\hA7F1, \hA7F6>>, <<\hA7F8, \hA7FA>>, <<\hAB30, \hAB5A>>, <<\hAB5C, \hAB69>>,
       <<\hAB70, \hABBF>>, <<\hFB00, \hFB06>>, <<\hFB13, \hFB17>>, <<\hFF21, \hFF3A>>,
       <<\hFF41, \hFF5A>>, <<\h10400, \h1044F>>, <<\h104B0, \h104D3>>, <<\h104D8, \h104FB>>,
       <<\h10570, \h1057A>>, <<\h1057C, \h1058A>>, <<\h1058C, \h10592>>, <<\h10594, \h10595>>,
       <<\h10597, \h105A1>>, <<\h105A3, \h105B1>>, <<\h105B3, \h105B9>>, <<\h105BB, \h105BC>>,
       <<\h10780, \h10780>>, <<\h10783, \h10785>>, <<\h10787, \h107B0>>, <<\h107B2, \h107BA>>,
       <<\h10C80, \h10CB2>>, <<\h10CC0, \h10CF2>>, <<\h10D50, \h10D65>>, <<\h10D70, \h10D85>>,
       <<\h118A0, \h118DF>>, <<\h16E40, \h16E7F>>, <<\h16EA0, \h16EB8>>, <<\h16EBB, \h16ED3>>,
       <<\h1D400, \h1D454>>, <<\h1D456, \h1D49C>>, <<\h1D49E, \h1D49F>>, <<\h1D4A2, \h1D4A2>>,
       <<\h1D4A5, \h1D4A6>>, <<\h1D4A9, \h1D4AC>>, <<\h1D4AE, \h1D4B9>>, <<\h1D4BB, \h1D4BB>>,
       <<\h1D4BD, \h1D4C3>>, <<\h1D4C5, \h1D505>>, <<\h1D507, \h1D50A>>, <<\h1D50D, \h1D514>>,
       <<\h1D516, \h1D51C>>, <<\h1D51E, \h1D539>>, <<\h1D53B, \h1D53E>>, <<\h1D540, \h1D544>>,
       <<\h1D546, \h1D546>>, <<\h1D54A, \h1D550>>, <<\h1D552, \h1D6A5>>, <<\h1D6A8, \h1D6C0>>,
       <<\h1D6C2, \h1D6DA>>, <<\h1D6DC, \h1D6FA>>, <<\h1D6FC, \h1D714>>, <<\h1D716, \h1D734>>,
       <<\h1D736, \h1D74E>>, <<\h1D750, \h1D76E>>, <<\h1D770, \h1D788>>, <<\h1D78A, \h1D7A8>>,
       <<\h1D7AA, \h1D7C2>>, <<\h1D7C4, \h1D7CB>>, <<\h1DF00, \h1DF09>>, <<\h1DF0B, \h1DF1E>>,
       <<\h1DF25, \h1DF2A>>, <<\h1E030, \h1E06D>>, <<\h1E900, \h1E943>>, <<\h1F130, \h1F149>>,
       <<\h1F150, \h1F169>>, <<\h1F170, \h1F189>> >>

\* the ranges of the characters with the property Case_Ignorable
CaseIgnorableRanges ==
    << <<\h0027, \h0027>>, <<\h002E, \h002E>>, <<\h003A, \h003A>>, <<\h005E, \h005E>>,
       <<\h0060, \h0060>>, <<\h00A8, \h00A8>>, <<\h00AD, \h00AD>>, <<\h00AF, \h00AF>>,
       <<\h00B4, \h00B4>>, <<\h00B7, \h00B8>>, <<\h02B0, \h036F>>, <<\h0374, \h0375>>,
       <<\h037A, \h037A>>, <<\h0384, \h0385>>, <<\h0387, \h0387>>, <<\h0483, \h0489>>,
       <<\h0559, \h0559>>, <<\h055F, \h055F>>, <<\h0591, \h05BD>>, <<\h05BF, \h05BF>>,
       <<\h05C1, \h05C2>>, <<\h05C4, \h05C5>>, <<\h05C7, \h05C7>>, <<\h05F4, \h05F4>>,
       <<\h0600, \h0605>>, <<\h0610, \h061A>>, <<\h061C, \h061C>>, <<\h0640, \h0640>>,
       <<\h064B, \h065F>>, <<\h0670, \h0670>>, <<\h06D6, \h06DD>>, <<\h06DF, \h06E8>>,
       <<\h06EA, \h06ED>>, <<\h070F, \h070F>>, <<\h0711, \h0711>>, <<\h0730, \h074A>>,
       <<\h07A6, \h07B0>>, <<\h07EB, \h07F5>>, <<\h07FA, \h07FA>>, <<\h07FD, \h07FD>>,
       <<\h0816, \h082D>>, <<\h0859, \h085B>>, <<\h0888, \h0888>>, <<\h0890, \h0891>>,
       <<\h0897, \h089F>>, <<\h08C9, \h0902>>, <<\h093A, \h093A>>, <<\h093C, \h093C>>,
       <<\h0941, \h0948>>, <<\h094D, \h094D>>, <<\h0951, \h0957>>, <<\h0962, \h0963>>,
       <<\h0971, \h0971>>, <<\h0981, \h0981>>, <<\h09BC, \h09BC>>, <<\h09C1, \h09C4>>,
       <<\h09CD, \h09CD>>, <<\h09E2, \h09E3>>, <<\h09FE, \h09FE>>, <<\h0A01, \h0A02>>,
       <<\h0A3C, \h0A3C>>, <<\h0A41, \h0A42>>, <<\h0A47, \h0A48>>, <<\h0A4B, \h0A4D>>,
       <<\h0A51, \h0A51>>, <<\h0A70, \h0A71>>, <<\h0A75, \h0A75>>, <<\h0A81, \h0A82>>,
       <<\h0ABC, \h0ABC>>, <<\h0AC1, \h0AC5>>, <<\h0AC7, \h0AC8>>, <<\h0ACD, \h0ACD>>,
       <<\h0AE2, \h0AE3>>, <<\h0AFA, \h0AFF>>, <<\h0B01, \h0B01>>, <<\h0B3C, \h0B3C>>,
       <<\h0B3F, \h0B3F>>, <<\h0B41, \h0B44>>, <<\h0B4D, \h0B4D>>, <<\h0B55, \h0B56>>,
       <<\h0B62, \h0B63>>, <<\h0B82, \h0B82>>, <<\h0BC0, \h0BC0>>, <<\h0BCD, \h0BCD>>,
       <<\h0C00, \h0C00>>, <<\h0C04, \h0C04>>, <<\h0C3C, \h0C3C>>, <<\h0C3E, \h0C40>>,
       <<\h0C46, \h0C48>>, <<\h0C4A, \h0C4D>>, <<\h0C55, \h0C56>>, <<\h0C62, \h0C63>>,
       <<\h0C81, \h0C81>>, <<\h0CBC, \h0CBC>>, <<\h0CBF, \h0CBF>>, <<\h0CC6, \h0CC6>>,
       <<\h0CCC, \h0CCD>>, <<\h0CE2, \h0CE3>>, <<\h0D00, \h0D01>>, <<\h0D3B, \h0D3C>>,
       <<\h0D41, \h0D44>>, <<\h0D4D, \h0D4D>>, <<\h0D62, \h0D63>>, <<\h0D81, \h0D81>>,
       <<\h0DCA, \h0DCA>>, <<\h0DD2, \h0DD4>>, <<\h0DD6, \h0DD6>>, <<\h0E31, \h0E31>>,
       <<\h0E34, \h0E3A>>, <<\h0E46, \h0E4E>>, <<\h0EB1, \h0EB1>>, <<\h0EB4, \h0EBC>>,
       <<\h0EC6, \h0EC6>>, <<\h0EC8, \h0ECE>>, <<\h0F18, \h0F19>>, <<\h0F35, \h0F35>>,
       <<\h0F37, \h0F37>>, <<\h0F39, \h0F39>>, <<\h0F71, \h0F7E>>, <<\h0F80, \h0F84>>,
       <<\h0F86, \h0F87>>, <<\h0F8D, \h0F97>>, <<\h0F99, \h0FBC>>, <<\h0FC6, \h0FC6>>,
       <<\h102D, \h1030>>, <<\h1032, \h1037>>, <<\h1039, \h103A>>, <<\h103D, \h103E>>,
       <<\h1058, \h1059>>, <<\h105E, \h1060>>, <<\h1071, \h1074>>, <<\h1082, \h1082>>,
       <<\h1085, \h1086>>, <<\h108D, \h108D>>, <<\h109D, \h109D>>, <<\h10FC, \h10FC>>,
       <<\h135D, \h135F>>, <<\h1712, \h1714>>, <<\h1732, \h1733>>, <<\h1752, \h1753>>,
       <<\h1772, \h1773>>, <<\h17B4, \h17B5>>, <<\h17B7, \h17BD>>, <<\h17C6, \h17C6>>,
       <<\h17C9, \h17D3>>, <<\h17D7, \h17D7>>, <<\h17DD, \h17DD>>, <<\h180B, \h180F>>,
       <<\h1843, \h1843>>, <<\h1885, \h1886>>, <<\h18A9, \h18A9>>, <<\h1920, \h1922>>,
       <<\h1927, \h1928>>, <<\h1932, \h1932>>, <<\h1939, \h193B>>, <<\h1A17, \h1A18>>,
       <<\h1A1B, \h1A1B>>, <<\h1A56, \h1A56>>, <<\h1A58, \h1A5E>>, <<\h1A60, \h1A60>>,
       <<\h1A62, \h1A62>>, <<\h1A65, \h1A6C>>, <<\h1A73, \h1A7C>>, <<\h1A7F, \h1A7F>>,
       <<\h1AA7, \h1AA7>>, <<\h1AB0, \h1ADD>>, <<\h1AE0, \h1AEB>>, <<\h1B00, \h1B03>>,
       <<\h1B34, \h1B34>>, <<\h1B36, \h1B3A>>, <<\h1B3C, \h1B3C>>, <<\h1B42, \h1B42>>,
       <<\h1B6B, \h1B73>>, <<\h1B80, \h1B81>>, <<\h1BA2, \h1BA5>>, <<\h1BA8, \h1BA9>>,
       <<\h1BAB, \h1BAD>>, <<\h1BE6, \h1BE6>>, <<\h1BE8, \h1BE9>>, <<\h1BED, \h1BED>>,
       <<\h1BEF, \h1BF1>>, <<\h1C2C, \h1C33>>, <<\h1C36, \h1C37>>, <<\h1C78, \h1C7D>>,
       <<\h1CD0, \h1CD2>>, <<\h1CD4, \h1CE0>>, <<\h1CE2, \h1CE8>>, <<\h1CED, \h1CED>>,
       <<\h1CF4, \h1CF4>>, <<\h1CF8, \h1CF9>>, <<\h1D2C, \h1D6A>>, <<\h1D78, \h1D78>>,
       <<\h1D9B, \h1DFF>>, <<\h1FBD, \h1FBD>>, <<\h1FBF, \h1FC1>>, <<\h1FCD, \h1FCF>>,
       <<\h1FDD, \h1FDF>>, <<\h1FED, \h1FEF>>, <<\h1FFD, \h1FFE>>, <<\h200B, \h200F>>,
       <<\h2018, \h2019>>, <<\h2024, \h2024>>, <<\h2027, \h2027>>, <<\h202A, \h202E>>,
       <<\h2060, \h2064>>, <<\h2066, \h206F>>, <<\h2071, \h2071>>, <<\h207F, \h207F>>,
       <<\h2090, \h209C>>, <<\h20D0, \h20F0>>, <<\h2C7C, \h2C7D>>, <<\h2CEF, \h2CF1>>,
       <<\h2D6F, \h2D6F>>, <<\h2D7F, \h2D7F>>, <<\h2DE0, \h2DFF>>, <<\h2E2F, \h2E2F>>,
       <<\h3005, \h3005>>, <<\h302A, \h302D>>, <<\h3031, \h3035>>, <<\h303B, \h303B>>,
       <<\h3099, \h309E>>, <<\h30FC, \h30FE>>, <<\hA015, \hA015>>, <<\hA4F8, \hA4FD>>,
       <<\hA60C, \hA60C>>, <<\hA66F, \hA672>>, <<\hA674, \hA67D>>, <<\hA67F, \hA67F>>,
       <<\hA69C, \hA69F>>, <<\hA6F0, \hA6F1>>, <<\hA700, \hA721>>, <<\hA770, \hA770>>,
       <<\hA788, \hA78A>>, <<\hA7F1, \hA7F4>>, <<\hA7F8, \hA7F9>>, <<\hA802, \hA802>>,
       <<\hA806, \hA806>>, <<\hA80B, \hA80B>>, <<\hA825, \hA826>>, <<\hA82C, \hA82C>>,
       <<\hA8C4, \hA8C5>>, <<\hA8E0, \hA8F1>>, <<\hA8FF, \hA8FF>>, <<\hA926, \hA92D>>,
       <<\hA947, \hA951>>, <<\hA980, \hA982>>, <<\hA9B3, \hA9B3>>, <<\hA9B6, \hA9B9>>,
       <<\hA9BC, \hA9BD>>, <<\hA9CF, \hA9CF>>, <<\hA9E5, \hA9E6>>, <<\hAA29, \hAA2E>>,
       <<\hAA31, \hAA32>>, <<\hAA35, \hAA36>>, <<\hAA43, \hAA43>>, <<\hAA4C, \hAA4C>>,
       <<\hAA70, \hAA70>>, <<\hAA7C, \hAA7C>>, <<\hAAB0, \hAAB0>>, <<\hAAB2, \hAAB4>>,
       <<\hAAB7, \hAAB8>>, <<\hAABE, \hAABF>>, <<\hAAC1, \hAAC1>>, <<\hAADD, \hAADD>>,
       <<\hAAEC, \hAAED>>, <<\hAAF3, \hAAF4>>, <<\hAAF6, \hAAF6>>, <<\hAB5B, \hAB5F>>,
       <<\hAB69, \hAB6B>>, <<\hABE5, \hABE5>>, <<\hABE8, \hABE8>>, <<\hABED, \hABED>>,
       <<\hFB1E, \hFB1E>>, <<\hFBB2, \hFBC2>>, <<\hFE00, \hFE0F>>, <<\hFE13, \hFE13>>,
       <<\hFE20, \hFE2F>>, <<\hFE52, \hFE52>>, <<\hFE55, \hFE55>>, <<\hFEFF, \hFEFF>>,
       <<\hFF07, \hFF07>>, <<\hFF0E, \hFF0E>>, <<\hFF1A, \hFF1A>>, <<\hFF3E, \hFF3E>>,
       <<\hFF40, \hFF40>>, <<\hFF70, \hFF70>>, <<\hFF9E, \hFF9F>>, <<\hFFE3, \hFFE3>>,
       <<\hFFF9, \hFFFB>>, <<\h101FD, \h101FD>>, <<\h102E0, \h102E0>>, <<\h10376, \h1037A>>,
       <<\h10780, \h10785>>, <<\h10787, \h107B0>>, <<\h107B2, \h107BA>>, <<\h10A01, \h10A03>>,
       <<\h10A05, \h10A06>>, <<\h10A0C, \h10A0F>>, <<\h10A38, \h10A3A>>, <<\h10A3F, \h10A3F>>,
       <<\h10AE5, \h10AE6>>, <<\h10D24, \h10D27>>, <<\h10D4E, \h10D4E>>, <<\h10D69, \h10D6D>>,
       <<\h10D6F, \h10D6F>>, <<\h10EAB, \h10EAC>>, <<\h10EC5, \h10EC5>>, <<\h10EFA, \h10EFF>>,
       <<\h10F46, \h10F50>>, <<\h10F82, \h10F85>>, <<\h11001, \h11001>>, <<\h11038, \h11046>>,
       <<\h11070, \h11070>>, <<\h11073, \h11074>>, <<\h1107F, \h11081>>, <<\h110B3, \h110B6>>,
       <<\h110B9, \h110BA>>, <<\h110BD, \h110BD>>, <<\h110C2, \h110C2>>, <<\h110CD, \h110CD>>,
       <<\h11100, \h11102>>, <<\h11127, \h1112B>>, <<\h1112D, \h11134>>, <<\h11173, \h11173>>,
       <<\h11180, \h11181>>, <<\h111B6, \h111BE>>, <<\h111C9, \h111CC>>, <<\h111CF, \h111CF>>,
       <<\h1122F, \h11231>>, <<\h11234, \h11234>>, <<\h11236, \h11237>>, <<\h1123E, \h1123E>>,
       <<\h11241, \h11241>>, <<\h112DF, \h112DF>>, <<\h112E3, \h112EA>>, <<\h11300, \h11301>>,
       <<\h1133B, \h1133C>>, <<\h11340, \h11340>>, <<\h11366, \h1136C>>, <<\h11370, \h11374>>,
       <<\h113BB, \h113C0>>, <<\h113CE, \h113CE>>, <<\h113D0, \h113D0>>, <<\h113D2, \h113D2>>,
       <<\h113E1, \h113E2>>, <<\h11438, \h1143F>>, <<\h11442, \h11444>>, <<\h11446, \h11446>>,
       <<\h1145E, \h1145E>>, <<\h114B3, \h114B8>>, <<\h114BA, \h114BA>>, <<\h114BF, \h114C0>>,
       <<\h114C2, \h114C3>>, <<\h115B2, \h115B5>>, <<\h115BC, \h115BD>>, <<\h115BF, \h115C0>>,
       <<\h115DC, \h115DD>>, <<\h11633, \h1163A>>, <<\h1163D, \h1163D>>, <<\h1163F, \h11640>>,
       <<\h116AB, \h116AB>>, <<\h116AD, \h116AD>>, <<\h116B0, \h116B5>>, <<\h116B7, \h116B7>>,
       <<\h1171D, \h1171D>>, <<\h1171F, \h1171F>>, <<\h11722, \h11725>>, <<\h11727, \h1172B>>,
       <<\h1182F, \h11837>>, <<\h11839, \h1183A>>, <<\h1193B, \h1193C>>, <<\h1193E, \h1193E>>,
       <<\h11943, \h11943>>, <<\h119D4, \h119D7>>, <<\h119DA, \h119DB>>, <<\h119E0, \h119E0>>,
       <<\h11A01, \h11A0A>>, <<\h11A33, \h11A38>>, <<\h11A3B, \h11A3E>>, <<\h11A47, \h11A47>>,
       <<\h11A51, \h11A56>>, <<\h11A59, \h11A5B>>, <<\h11A8A, \h11A96>>, <<\h11A98, \h11A99>>,
       <<\h11B60, \h11B60>>, <<\h11B62, \h11B64>>, <<\h11B66, \h11B66>>, <<\h11C30, \h11C36>>,
       <<\h11C38, \h11C3D>>, <<\h11C3F, \h11C3F>>, <<\h11C92, \h11CA7>>, <<\h11CAA, \h11CB0>>,
       <<\h11CB2, \h11CB3>>, <<\h11CB5, \h11CB6>>, <<\h11D31, \h11D36>>, <<\h11D3A, \h11D3A>>,
       <<\h11D3C, \h11D3D>>, <<\h11D3F, \h11D45>>, <<\h11D47, \h11D47>>, <<\h11D90, \h11D91>>,
       <<\h11D95, \h11D95>>, <<\h11D97, \h11D97>>, <<\h11DD9, \h11DD9>>, <<\h11EF3, \h11EF4>>,
       <<\h11F00, \h11F01>>, <<\h11F36, \h11F3A>>, <<\h11F40, \h11F40>>, <<\h11F42, \h11F42>>,
       <<\h11F5A, \h11F5A>>, <<\h13430, \h13440>>, <<\h13447, \h13455>>, <<\h1611E, \h16129>>,
       <<\h1612D, \h1612F>>, <<\h16AF0, \h16AF4>>, <<\h16B30, \h16B36>>, <<\h16B40, \h16B43>>,
       <<\h16D40, \h16D42>>, <<\h16D6B, \h16D6C>>, <<\h16F4F, \h16F4F>>, <<\h16F8F, \h16F9F>>,
       <<\h16FE0, \h16FE1>>, <<\h16FE3, \h16FE4>>, <<\h16FF2, \h16FF3>>, <<\h1AFF0, \h1AFF3>>,
       <<\h1AFF5, \h1AFFB>>, <<\h1AFFD, \h1AFFE>>, <<\h1BC9D, \h1BC9E>>, <<\h1BCA0, \h1BCA3>>,
       <<\h1CF00, \h1CF2D>>, <<\h1CF30, \h1CF46>>, <<\h1D167, \h1D169>>, <<\h1D173, \h1D182>>,
       <<\h1D185, \h1D18B>>, <<\h1D1AA, \h1D1AD>>, <<\h1D242, \h1D244>>, <<\h1DA00, \h1DA36>>,
       <<\h1DA3B, \h1DA6C>>, <<\h1DA75, \h1DA75>>, <<\h1DA84, \h1DA84>>, <<\h1DA9B, \h1DA9F>>,
       <<\h1DAA1, \h1DAAF>>, <<\h1E000, \h1E006>>, <<\h1E008, \h1E018>>, <<\h1E01B, \h1E021>>,
       <<\h1E023, \h1E024>>, <<\h1E026, \h1E02A>>, <<\h1E030, \h1E06D>>, <<\h1E08F, \h1E08F>>,
       <<\h1E130, \h1E13D>>, <<\h1E2AE, \h1E2AE>>, <<\h1E2EC, \h1E2EF>>, <<\h1E4EB, \h1E4EF>>,
       <<\h1E5EE, \h1E5EF>>, <<\h1E6E3, \h1E6E3>>, <<\h1E6E6, \h1E6E6>>, <<\h1E6EE, \h1E6EF>>,
       <<\h1E6F5, \h1E6F5>>, <<\h1E6FF, \h1E6FF>>, <<\h1E8D0, \h1E8D6>>, <<\h1E944, \h1E94B>>,
       <<\h1F3FB, \h1F3FF>>, <<\hE0001, \hE0001>>, <<\hE0020, \hE007F>>, <<\hE0100, \hE01EF>> >>

\* whether c lies in one of the ranges
InRanges(c, table) == \E i \in 1..Len(table) : table[i][1] <= c /\ c <= table[i][2]

UpperCharSet == {UpperChars[i] : i \in 1..Len(UpperChars)}

LowerCharSet == {LowerChars[i] : i \in 1..Len(LowerChars)}

\* char::to_lowercase: the characters c maps to
CharToLower(c) ==
    IF c \in UpperCharSet THEN LoweredChars[IndexIn(c, UpperChars)] ELSE <<c>>

\* char::to_uppercase: the characters c maps to
CharToUpper(c) ==
    IF c \in LowerCharSet THEN RaisedChars[IndexIn(c, LowerChars)] ELSE <<c>>

\* core::unicode::Cased
Cased(c) == InRanges(c, CasedRanges)

\* core::unicode::Case_Ignorable
Case_Ignorable(c) == InRanges(c, CaseIgnorableRanges)

\* case_ignorable_then_cased: whether the first character of the list that
\* is not Case_Ignorable is Cased
RECURSIVE case_ignorable_then_cased(_)
case_ignorable_then_cased(chars) ==
    IF Len(chars) = 0 THEN FALSE
    ELSE IF Case_Ignorable(chars[1]) THEN case_ignorable_then_cased(Tail(chars))
    ELSE Cased(chars[1])

\* the characters of s in reverse order
Reversed(s) == [i \in 1..Len(s) |-> s[Len(s) + 1 - i]]

\* map_uppercase_sigma: the lower case of the capital sigma at place i of s,
\* the final form (U+03C2) after a cased letter and before none, the small
\* sigma (U+03C3) elsewhere
map_uppercase_sigma(s, i) ==
    IF /\ case_ignorable_then_cased(Reversed(SubSeq(s, 1, i - 1)))
       /\ ~case_ignorable_then_cased(SubSeq(s, i + 1, Len(s)))
    THEN \h03C2 ELSE \h03C3

\* the lists of a list joined in order
RECURSIVE Flatten(_)
Flatten(parts) == IF Len(parts) = 0 THEN <<>> ELSE parts[1] \o Flatten(Tail(parts))

\* str::to_lowercase; the capital sigma is U+03A3
to_lowercase(s) ==
    Flatten([i \in 1..Len(s) |->
                IF s[i] = \h03A3 THEN <<map_uppercase_sigma(s, i)>> ELSE CharToLower(s[i])])

\* str::to_uppercase
to_uppercase(s) == Flatten([i \in 1..Len(s) |-> CharToUpper(s[i])])

\* char::is_whitespace: the characters with the property White_Space
IsSpaceChar(c) ==
    \/ c \in \h0009..\h000D
    \/ c \in {\h0020, \h0085, \h00A0, \h1680, \h2028, \h2029, \h202F, \h205F, \h3000}
    \/ c \in \h2000..\h200A

\* an ASCII digit
IsDigitChar(c) == c \in Ch("0")..Ch("9")

DigitVal(c) == c - Ch("0")

\* s from position i on (1-based); the empty string when i is past the end
DropTo(s, i) == IF i > Len(s) THEN <<>> ELSE SubSeq(s, i, Len(s))

\* the number of leading characters of s that are white space
LeadingSpaces(s) ==
    IF \E i \in 1..Len(s) : ~IsSpaceChar(s[i])
    THEN (CHOOSE i \in 1..Len(s) :
              /\ ~IsSpaceChar(s[i])
              /\ \A j \in 1..(i-1) : IsSpaceChar(s[j])) - 1
    ELSE Len(s)

\* str::trim_start
trim_start(s) == DropTo(s, LeadingSpaces(s) + 1)

\* the number of trailing characters of s that are white space
TrailingSpaces(s) ==
    IF \E i \in 1..Len(s) : ~IsSpaceChar(s[i])
    THEN Len(s) - (CHOOSE i \in 1..Len(s) :
                       /\ ~IsSpaceChar(s[i])
                       /\ \A j \in (i+1)..Len(s) : IsSpaceChar(s[j]))
    ELSE Len(s)

\* str::trim
trim(s) ==
    IF LeadingSpaces(s) = Len(s) THEN <<>>
    ELSE SubSeq(s, LeadingSpaces(s) + 1, Len(s) - TrailingSpaces(s))

----------------------------------------------------------------------------
(* NaiveDate: the proleptic Gregorian calendar *)

Date(y, m, d) == [y |-> y, m |-> m, d |-> d]

\* chrono's NaiveDate::MAX, the last date it represents
MaxDate == Date(262142, 12, 31)

\* chrono's NaiveDate::MIN
MinDate == Date(-262143, 1, 1)

IsLeapYear(y) == (y % 4 = 0 /\ y % 100 # 0) \/ y % 400 = 0

DaysInMonth(y, m) ==
    IF m = 2 THEN (IF IsLeapYear(y) THEN 29 ELSE 28)
    ELSE IF m \in {4, 6, 9, 11} THEN 30 ELSE 31

\* NaiveDate::from_ymd_opt: whether (y, m, d) is a date chrono represents
ValidYmd(y, m, d) ==
    /\ y >= MinDate.y /\ y <= MaxDate.y
    /\ m >= 1 /\ m <= 12
    /\ d >= 1 /\ d <= DaysInMonth(y, m)

\* Ord for NaiveDate: a < b
DateLt(a, b) ==
    \/ a.y < b.y
    \/ a.y = b.y /\ a.m < b.m
    \/ a.y = b.y /\ a.m = b.m /\ a.d < b.d

DateLe(a, b) == a = b \/ DateLt(a, b)

\* NaiveDate::succ_opt: the next day, None after the last representable date
succ_opt(dt) ==
    IF dt = MaxDate THEN None
    ELSE IF dt.d < DaysInMonth(dt.y, dt.m) THEN Some(Date(dt.y, dt.m, dt.d + 1))
    ELSE IF dt.m < 12 THEN Some(Date(dt.y, dt.m + 1, 1))
    ELSE Some(Date(dt.y + 1, 1, 1))

\* floor division, for negative numerators too
FloorDiv(a, b) == IF a >= 0 THEN a \div b ELSE -((-a + b - 1) \div b)

\* days from 1970-01-01 to the date (negative before it)
DaysFromCivil(dt) ==
    LET y   == IF dt.m <= 2 THEN dt.y - 1 ELSE dt.y
        era == FloorDiv(y, 400)
        yoe == y - era * 400
        mp  == (dt.m + 9) % 12
        doy == (153 * mp + 2) \div 5 + dt.d - 1
        doe == yoe * 365 + yoe \div 4 - yoe \div 100 + doy
    IN  era * 146097 + doe - 719468

\* day of the week, 0 = Sunday .. 6 = Saturday
Weekday(dt) == (DaysFromCivil(dt) + 4) % 7

----------------------------------------------------------------------------
(* NaiveTime [secs, frac], NaiveDateTime [date, time] and DateTime<Utc>,    *)
(* the NaiveDateTime of the instant in UTC                                  *)

SecondsPerDay == 24 * 3600

NanosPerSecond == 1000 * 1000 * 1000

\* NaiveTime: secs seconds since midnight and frac nanoseconds, frac from
\* NanosPerSecond on within a leap second
NaiveTime(secs, frac) == [secs |-> secs, frac |-> frac]

\* NaiveTime::from_hms_opt(h, m, s).unwrap()
Hms(h, m, s) == NaiveTime(h * 3600 + m * 60 + s, 0)

\* Ord for NaiveTime: a < b
TimeLt(a, b) == a.secs < b.secs \/ (a.secs = b.secs /\ a.frac < b.frac)

\* NaiveDate::and_time
and_time(dt, t) == [date |-> dt, time |-> t]

\* Ord for NaiveDateTime: a < b
DateTimeLt(a, b) == DateLt(a.date, b.date) \/ (a.date = b.date /\ TimeLt(a.time, b.time))

DateTimeLe(a, b) == a = b \/ DateTimeLt(a, b)

\* NaiveDate::pred_opt: the day before, None before the first representable date
pred_opt(dt) ==
    IF dt = MinDate THEN None
    ELSE IF dt.d > 1 THEN Some(Date(dt.y, dt.m, dt.d - 1))
    ELSE IF dt.m > 1 THEN Some(Date(dt.y, dt.m - 1, DaysInMonth(dt.y, dt.m - 1)))
    ELSE Some(Date(dt.y - 1, 12, 31))

\* the date-time n seconds after ndt, for n within a day either way: the
\* fraction is kept as it is; None past the first or the last date-time
\* (NaiveDateTime::checked_add_offset, checked_sub_offset)
ShiftSeconds(ndt, n) ==
    LET total == ndt.time.secs + n
        day   == IF total < 0 THEN pred_opt(ndt.date)
                 ELSE IF total >= SecondsPerDay THEN succ_opt(ndt.date)
                 ELSE Some(ndt.date)
    IN  IF IsNone(day) THEN None
        ELSE Some(and_time(day[1], NaiveTime(total % SecondsPerDay, ndt.time.frac)))

\* DateTime<Utc>::date_naive: the calendar date of the instant in UTC
date_naive(instant) == instant.date

----------------------------------------------------------------------------
(* chrono's format-driven parser: format::parse, then Parsed::to_naive_date *)
(* and Parsed::to_naive_time.                                               *)
(* A format is a sequence of items: "%Y" "%m" "%d" "%H" "%M" "%S" "%I" "%p" *)
(* "%.f" "%:z", " " (white space) and any other character as a literal.     *)

EmptyParsed ==
    [year |-> None, month |-> None, day |-> None, hour_div_12 |-> None,
     hour_mod_12 |-> None, minute |-> None, second |-> None,
     nanosecond |-> None, offset |-> None]

\* the number of leading digits of s, at most max
RECURSIVE LeadingDigits(_, _)
LeadingDigits(s, max) ==
    IF max = 0 \/ Len(s) = 0 \/ ~IsDigitChar(s[1]) THEN 0
    ELSE 1 + LeadingDigits(Tail(s), max - 1)

\* the value of the first n characters of s, all digits
RECURSIVE DigitsValueTo(_, _)
DigitsValueTo(s, n) ==
    IF n = 0 THEN 0 ELSE DigitsValueTo(s, n - 1) * 10 + DigitVal(s[n])

\* scan::number(s, min, max): min..max leading digits; Some([v, rest]) or None
ScanNumber(s, min, max) ==
    Let(LeadingDigits(s, max),
        LAMBDA n : IF n < min THEN None
                   ELSE Some([v |-> DigitsValueTo(s, n), rest |-> DropTo(s, n + 1)]))

\* the value of the first n characters of s, all digits, under the sign (1
\* or -1): Some(value), or None when the value is not an i32
RECURSIVE SignedValueTo(_, _, _)
SignedValueTo(s, n, sign) ==
    IF n = 0 THEN Some(0)
    ELSE Let(SignedValueTo(s, n - 1, sign),
             LAMBDA p : IF IsNone(p) THEN None
                        ELSE IF p[1] > 214748364 \/ p[1] < -214748364 THEN None
                        ELSE IF p[1] = 214748364 /\ DigitVal(s[n]) > 7 THEN None
                        ELSE IF p[1] = -214748364 /\ DigitVal(s[n]) > 8 THEN None
                        ELSE Some(p[1] * 10 + sign * DigitVal(s[n])))

\* scan::number(s, 1, usize::MAX) after a sign: every leading digit is read;
\* a number that is no i64 is an error of the scan and one that is no i32 an
\* error of the setter it goes to, and both are None here
ScanSigned(s, sign) ==
    Let(LeadingDigits(s, Len(s)),
        LAMBDA n : IF n < 1 THEN None
                   ELSE Let(SignedValueTo(s, n, sign),
                            LAMBDA v : IF IsNone(v) THEN None
                                       ELSE Some([v |-> v[1], rest |-> DropTo(s, n + 1)])))

\* a numeric item: leading white space is skipped; a year may carry a sign,
\* and then is not limited to the item's width
ScanNumeric(s, width, signed) ==
    Let(trim_start(s),
        LAMBDA t : IF signed /\ Len(t) > 0 /\ t[1] \in {Ch("-"), Ch("+")}
                   THEN ScanSigned(Tail(t), IF t[1] = Ch("-") THEN -1 ELSE 1)
                   ELSE ScanNumber(t, 1, width))

\* the number of leading characters of u that are colons or white space
LeadingColons(u) ==
    IF \E i \in 1..Len(u) : ~(u[i] = Ch(":") \/ IsSpaceChar(u[i]))
    THEN (CHOOSE i \in 1..Len(u) :
              /\ ~(u[i] = Ch(":") \/ IsSpaceChar(u[i]))
              /\ \A j \in 1..(i-1) : u[j] = Ch(":") \/ IsSpaceChar(u[j])) - 1
    ELSE Len(u)

\* the minutes of an offset and what follows them, after hours and sign
ScanOffsetMinutes(w, sign, hours) ==
    IF Len(w) < 2 \/ ~IsDigitChar(w[1]) \/ ~IsDigitChar(w[2]) \/ DigitVal(w[1]) > 5
    THEN None
    ELSE Some([v |-> sign * (hours * 3600 + (DigitVal(w[1]) * 10 + DigitVal(w[2])) * 60),
               rest |-> DropTo(w, 3)])

\* scan::timezone_offset with colon_or_space: sign (a plus, a hyphen or the
\* minus sign U+2212), two digits of hours, any
\* colons and white space, two digits of minutes below 60; Some([v, rest]) in
\* seconds east of UTC, or None
ScanOffset(s) ==
    Let(trim_start(s),
        LAMBDA t : IF Len(t) < 3 \/ t[1] \notin {Ch("+"), Ch("-"), \h2212}
                      \/ ~IsDigitChar(t[2]) \/ ~IsDigitChar(t[3]) THEN None
                   ELSE Let(DropTo(t, 4),
                            LAMBDA u : ScanOffsetMinutes(
                                           DropTo(u, LeadingColons(u) + 1),
                                           IF t[1] = Ch("+") THEN 1 ELSE -1,
                                           DigitVal(t[2]) * 10 + DigitVal(t[3]))))

\* the numeric items and the most digits each reads
NumericItems == {"%Y", "%m", "%d", "%H", "%I", "%M", "%S"}

ItemWidth(item) == IF item = "%Y" THEN 4 ELSE 2

\* Parsed::set_if_consistent: the fields with the value v stored in the
\* field, or None when the field already holds another value
set_if_consistent(p, field, v) ==
    IF IsSome(p[field]) /\ p[field][1] # v THEN None
    ELSE Some([p EXCEPT ![field] = Some(v)])

\* Parsed::set_hour: an hour from 0 to 23, stored as its half of the day and
\* its hour within it
set_hour(p, v) ==
    IF v \notin 0..23 THEN None
    ELSE Let(set_if_consistent(p, "hour_div_12", v \div 12),
             LAMBDA q : IF IsNone(q) THEN None
                        ELSE set_if_consistent(q[1], "hour_mod_12", v % 12))

\* the setter of a numeric item (set_year, set_month, set_day, set_hour,
\* set_hour12, set_minute, set_second): the fields with the value v stored,
\* or None when the value is out of the item's range or the field already
\* holds another value
SetNumeric(item, p, v) ==
    CASE item = "%Y" -> set_if_consistent(p, "year", v)
      [] item = "%m" -> IF v \in 1..12 THEN set_if_consistent(p, "month", v) ELSE None
      [] item = "%d" -> IF v \in 1..31 THEN set_if_consistent(p, "day", v) ELSE None
      [] item = "%H" -> set_hour(p, v)
      [] item = "%I" -> IF v \in 1..12 THEN set_if_consistent(p, "hour_mod_12", v % 12)
                        ELSE None
      [] item = "%M" -> IF v \in 0..59 THEN set_if_consistent(p, "minute", v) ELSE None
      [] item = "%S" -> IF v \in 0..60 THEN set_if_consistent(p, "second", v) ELSE None

\* s with its first n characters dropped and the fields q, when they are some
Consumed(s, n, q) == IF IsNone(q) THEN None ELSE Some([s |-> DropTo(s, n + 1), p |-> q[1]])

\* "%p": am or pm, each letter in either case, to Parsed::set_ampm
ParseAmPm(s, p) ==
    IF Len(s) < 2 THEN None
    ELSE IF s[1] \in {Ch("a"), Ch("A")} /\ s[2] \in {Ch("m"), Ch("M")}
    THEN Consumed(s, 2, set_if_consistent(p, "hour_div_12", 0))
    ELSE IF s[1] \in {Ch("p"), Ch("P")} /\ s[2] \in {Ch("m"), Ch("M")}
    THEN Consumed(s, 2, set_if_consistent(p, "hour_div_12", 1))
    ELSE None

\* 10 to the power n
RECURSIVE Pow10(_)
Pow10(n) == IF n = 0 THEN 1 ELSE 10 * Pow10(n - 1)

\* the smaller of two numbers
Min(a, b) == IF a < b THEN a ELSE b

\* scan::nanosecond: the digits of a fraction of a second, the first nine
\* read as nanoseconds and the others skipped; Some([v, rest]) or None
ScanNanosecond(s) ==
    Let(LeadingDigits(s, Len(s)),
        LAMBDA n : IF n < 1 THEN None
                   ELSE Some([v |-> DigitsValueTo(s, Min(n, 9)) * Pow10(9 - Min(n, 9)),
                              rest |-> DropTo(s, n + 1)]))

\* "%.f": a point and the digits of a fraction, to Parsed::set_nanosecond, or
\* nothing
ParseFraction(s, p) ==
    IF Len(s) > 0 /\ s[1] = Ch(".")
    THEN Let(ScanNanosecond(Tail(s)),
             LAMBDA r : IF IsNone(r) THEN None
                        ELSE Consumed(r[1].rest, 0,
                                      set_if_consistent(p, "nanosecond", r[1].v)))
    ELSE Some([s |-> s, p |-> p])

\* one item of a format applied to the input s with the fields p parsed so
\* far: Some([s, p]) with the rest of the input, or None when it does not match
ParseItem(item, s, p) ==
    IF item \in NumericItems
    THEN Let(ScanNumeric(s, ItemWidth(item), item = "%Y"),
             LAMBDA r : IF IsNone(r) THEN None
                        ELSE Let(SetNumeric(item, p, r[1].v),
                                 LAMBDA q : IF IsNone(q) THEN None
                                            ELSE Some([s |-> r[1].rest, p |-> q[1]])))
    ELSE IF item = "%p" THEN ParseAmPm(s, p)
    ELSE IF item = "%.f" THEN ParseFraction(s, p)
    ELSE IF item = "%:z"
    THEN Let(ScanOffset(s),
             LAMBDA r : IF IsNone(r) THEN None
                        ELSE Consumed(r[1].rest, 0, set_if_consistent(p, "offset", r[1].v)))
    ELSE IF item = " " THEN Some([s |-> trim_start(s), p |-> p])
    ELSE IF Len(s) > 0 /\ s[1] = Ch(item) THEN Some([s |-> Tail(s), p |-> p])
    ELSE None

\* format::parse: the items in order; input left over at the end is an error
RECURSIVE ParseItems(_, _, _)
ParseItems(fmt, s, p) ==
    IF Len(fmt) = 0 THEN (IF Len(s) = 0 THEN Some(p) ELSE None)
    ELSE Let(ParseItem(fmt[1], s, p),
             LAMBDA r : IF IsNone(r) THEN None
                        ELSE ParseItems(Tail(fmt), r[1].s, r[1].p))

\* Parsed::to_naive_date
to_naive_date(p) ==
    IF IsSome(p.year) /\ IsSome(p.month) /\ IsSome(p.day)
       /\ ValidYmd(p.year[1], p.month[1], p.day[1])
    THEN Some(Date(p.year[1], p.month[1], p.day[1]))
    ELSE None

\* Parsed::to_naive_time: the hour needs both halves, the minute is required,
\* the second defaults to 0, a second 60 is the leap second after second 59,
\* and a fraction needs a second
to_naive_time(p) ==
    IF /\ IsSome(p.hour_div_12) /\ p.hour_div_12[1] \in {0, 1}
       /\ IsSome(p.hour_mod_12) /\ p.hour_mod_12[1] \in 0..11
       /\ IsSome(p.minute) /\ p.minute[1] \in 0..59
       /\ (IsNone(p.second) \/ p.second[1] \in 0..60)
       /\ (IsNone(p.nanosecond) \/ IsSome(p.second))
    THEN LET second == IF IsNone(p.second) THEN 0
                       ELSE IF p.second[1] = 60 THEN 59 ELSE p.second[1]
             leap   == IF IsSome(p.second) /\ p.second[1] = 60 THEN NanosPerSecond ELSE 0
             nano   == IF IsSome(p.nanosecond) THEN p.nanosecond[1] ELSE 0
         IN  Some(NaiveTime(p.hour_div_12[1] * 12 * 3600 + p.hour_mod_12[1] * 3600
                                + p.minute[1] * 60 + second,
                            leap + nano))
    ELSE None

\* the date and the time of the parsed fields together: Some([date, time])
to_naive_datetime(p) ==
    Let(<<to_naive_date(p), to_naive_time(p)>>,
        LAMBDA dt : IF IsNone(dt[1]) \/ IsNone(dt[2]) THEN None
                    ELSE Some(and_time(dt[1][1], dt[2][1])))

\* NaiveDate::parse_from_str
NaiveDate_parse_from_str(s, fmt) ==
    Let(ParseItems(fmt, s, EmptyParsed),
        LAMBDA r : IF IsNone(r) THEN None ELSE to_naive_date(r[1]))

\* NaiveTime::parse_from_str
NaiveTime_parse_from_str(s, fmt) ==
    Let(ParseItems(fmt, s, EmptyParsed),
        LAMBDA r : IF IsNone(r) THEN None ELSE to_naive_time(r[1]))

\* NaiveDateTime::parse_from_str: Some([date, time]) or None
NaiveDateTime_parse_from_str(s, fmt) ==
    Let(ParseItems(fmt, s, EmptyParsed),
        LAMBDA r : IF IsNone(r) THEN None ELSE to_naive_datetime(r[1]))

\* FixedOffset::east_opt: whether the offset is less than a day either way
east_opt(offset) == offset > -SecondsPerDay /\ offset < SecondsPerDay

\* Parsed::to_datetime: the local date and time as written, when there is
\* an offset, it is one FixedOffset takes, and the instant the date and time
\* are at under it is one chrono represents
to_datetime(p) ==
    IF IsNone(p.offset) THEN None
    ELSE Let(to_naive_datetime(p),
             LAMBDA local : IF IsNone(local) THEN None
                            ELSE IF ~east_opt(p.offset[1]) THEN None
                            ELSE IF IsNone(ShiftSeconds(local[1], 0 - p.offset[1])) THEN None
                            ELSE local)

\* DateTime::parse_from_str with an offset in the format: the local date and
\* time as written
DateTime_parse_from_str(s, fmt) ==
    Let(ParseItems(fmt, s, EmptyParsed),
        LAMBDA r : IF IsNone(r) THEN None ELSE to_datetime(r[1]))

----------------------------------------------------------------------------
(* Result<T>: Ok(v) or Err(message) *)

Ok(x) == [ok |-> TRUE, v |-> x]

Err(msg) == [ok |-> FALSE, v |-> msg]

----------------------------------------------------------------------------
(* event.rs: CalendarEvent *)

CalendarEvent(title, description, location, organization, purchased, start_date, start_time, end_date, end_time) ==
    [title |-> title, description |-> description, location |-> location,
     organization |-> organization, purchased |-> purchased,
     start_date |-> start_date, start_time |-> start_time,
     end_date |-> end_date, end_time |-> end_time]

\* CalendarEvent::is_all_day
is_all_day(e) == IsNone(e.start_time) /\ IsNone(e.end_time)

\* Option::unwrap_or
unwrap_or(o, dflt) == IF IsSome(o) THEN o[1] ELSE dflt

\* CalendarEvent::start_datetime: midnight when there is no start time
start_datetime(e) == and_time(e.start_date, unwrap_or(e.start_time, Hms(0, 0, 0)))

\* CalendarEvent::end_datetime: 23:59:59 when there is no end time
end_datetime(e) == and_time(e.end_date, unwrap_or(e.end_time, Hms(23, 59, 59)))

----------------------------------------------------------------------------
(* csv_parser.rs *)

\* the date of the first format of the list that parses s
RECURSIVE FirstDate(_, _)
FirstDate(s, formats) ==
    IF Len(formats) = 0 THEN None
    ELSE Let(NaiveDate_parse_from_str(s, formats[1]),
             LAMBDA r : IF IsSome(r) THEN r ELSE FirstDate(s, Tail(formats)))

\* the time of the first format of the list that parses s
RECURSIVE FirstTime(_, _)
FirstTime(s, formats) ==
    IF Len(formats) = 0 THEN None
    ELSE Let(NaiveTime_parse_from_str(s, formats[1]),
             LAMBDA r : IF IsSome(r) THEN r ELSE FirstTime(s, Tail(formats)))

\* parse_date's formats, in the order tried
CsvDateFormats ==
    << <<"%Y", "-", "%m", "-", "%d">>,
       <<"%m", "/", "%d", "/", "%Y">>,
       <<"%d", "/", "%m", "/", "%Y">>,
       <<"%Y", "/", "%m", "/", "%d">>,
       <<"%m", "-", "%d", "-", "%Y">> >>

\* parse_time's formats, in the order tried
CsvTimeFormats ==
    << <<"%H", ":", "%M", ":", "%S">>,
       <<"%H", ":", "%M">>,
       <<"%I", ":", "%M", ":", "%S", " ", "%p">>,
       <<"%I", ":", "%M", " ", "%p">>,
       <<"%I", ":", "%M", "%p">> >>

\* parse_date: Some(date) or None for the error
parse_date(s) == Let(trim(s), LAMBDA t : FirstDate(t, CsvDateFormats))

\* parse_time: Some(time) or None for the error
parse_time(s) == Let(to_uppercase(trim(s)), LAMBDA t : FirstTime(t, CsvTimeFormats))

\* serde's reading of a CSV field into Option<String>: an empty field is None
CsvOption(field) == IF Len(field) = 0 THEN None ELSE Some(field)

\* the CsvRecord a CSV line deserializes to
CsvRecord(line) ==
    [title |-> line.title,
     description |-> CsvOption(line.description),
     location |-> CsvOption(line.location),
     start_date |-> line.start_date,
     start_time |-> CsvOption(line.start_time),
     end_date |-> CsvOption(line.end_date),
     end_time |-> CsvOption(line.end_time)]

\* Option::filter(|s| !s.is_empty())
FilterNonEmpty(o) == IF IsSome(o) /\ Len(o[1]) > 0 THEN o ELSE None

\* an optional field of a CsvRecord that is there and not empty
Given(o) == IsSome(o) /\ Len(o[1]) > 0

\* a date or a time parsed when it is given: <<given, Option of the value>>
GivenDate(o) == IF Given(o) THEN <<TRUE, parse_date(o[1])>> ELSE <<FALSE, None>>

GivenTime(o) == IF Given(o) THEN <<TRUE, parse_time(o[1])>> ELSE <<FALSE, None>>

\* parse_record
parse_record(record) ==
    Let([start_date |-> parse_date(record.start_date),
         end_date   |-> GivenDate(record.end_date),
         start_time |-> GivenTime(record.start_time),
         end_time   |-> GivenTime(record.end_time)],
        LAMBDA f :
            IF IsNone(f.start_date) THEN Err("Invalid start_date")
            ELSE IF f.end_date[1] /\ IsNone(f.end_date[2]) THEN Err("Invalid end_date")
            ELSE IF f.start_time[1] /\ IsNone(f.start_time[2]) THEN Err("Invalid start_time")
            ELSE IF f.end_time[1] /\ IsNone(f.end_time[2]) THEN Err("Invalid end_time")
            ELSE Ok(CalendarEvent(record.title,
                                  FilterNonEmpty(record.description),
                                  FilterNonEmpty(record.location),
                                  None, FALSE,
                                  f.start_date[1],
                                  f.start_time[2],
                                  IF f.end_date[1] THEN f.end_date[2][1] ELSE f.start_date[1],
                                  f.end_time[2])))

\* parse_csv's loop over the lines of the file: the events of the lines in
\* order, or the error of the first line that fails
RECURSIVE parse_csv_rows(_, _)
parse_csv_rows(lines, acc) ==
    IF Len(lines) = 0 THEN Ok(acc)
    ELSE IF ~lines[1].well_formed THEN Err("Failed to parse row")
    ELSE Let(parse_record(CsvRecord(lines[1])),
             LAMBDA r : IF ~r.ok THEN r
                        ELSE parse_csv_rows(Tail(lines), Append(acc, r.v)))

\* parse_csv: the file cannot be opened, or its lines are mapped
parse_csv(opened, lines) ==
    IF ~opened THEN Err("Failed to open CSV file") ELSE parse_csv_rows(lines, <<>>)


----------------------------------------------------------------------------
(* coda.rs *)

\* DEFAULT_EVENT_DURATION_MINUTES
DEFAULT_EVENT_DURATION_MINUTES == 150

\* A cell of a Coda row, a serde_json::Value or no entry under the key:
\* kind is "String", "Null", "Other" (a number, a boolean, an array, an
\* object) or "Absent"; text is the string, or the JSON text of the value
JsonString(s) == [kind |-> "String", text |-> s]

JsonNull == [kind |-> "Null", text |-> <<>>]

JsonOther(text) == [kind |-> "Other", text |-> text]

JsonAbsent == [kind |-> "Absent", text |-> <<>>]

\* str::trim_matches('"')
RECURSIVE trim_matches_quote(_)
trim_matches_quote(s) ==
    IF Len(s) > 0 /\ s[1] = Ch("\"") THEN trim_matches_quote(Tail(s))
    ELSE IF Len(s) > 0 /\ s[Len(s)] = Ch("\"") THEN trim_matches_quote(SubSeq(s, 1, Len(s) - 1))
    ELSE s

\* get_string_value: Some(string) or None for the "Missing or empty" error
get_string_value(values, key) ==
    FilterNonEmpty(IF values[key].kind = "String" THEN Some(values[key].text)
                   ELSE IF values[key].kind = "Other"
                   THEN Some(trim_matches_quote(values[key].text))
                   ELSE None)

\* [T]::join("\n") for a list of strings
RECURSIVE JoinLines(_)
JoinLines(parts) ==
    IF Len(parts) = 0 THEN <<>>
    ELSE IF Len(parts) = 1 THEN parts[1]
    ELSE parts[1] \o <<\h000A>> \o JoinLines(Tail(parts))

\* the value under the key as a list of zero or one strings
DescriptionPart(values, key) == get_string_value(values, key)

\* build_description
build_description(values) ==
    Let(DescriptionPart(values, "kenticoUrl") \o DescriptionPart(values, "artists")
            \o DescriptionPart(values, "works"),
        LAMBDA parts : IF Len(parts) = 0 THEN None ELSE Some(JoinLines(parts)))

\* the shape of an RFC 3339 date and time up to the seconds
Rfc3339Shape(s) ==
    /\ Len(s) >= 20
    /\ \A k \in {1, 2, 3, 4, 6, 7, 9, 10, 12, 13, 15, 16, 18, 19} : IsDigitChar(s[k])
    /\ s[5] = Ch("-") /\ s[8] = Ch("-")
    /\ s[11] \in {Ch("T"), Ch("t"), Ch(" ")}
    /\ s[14] = Ch(":") /\ s[17] = Ch(":")

\* the fraction of an RFC 3339 time and what follows it: Some([nano, rest])
\* with nano an Option, or None when a point is followed by no digit
AfterFraction(rest) ==
    IF Len(rest) > 0 /\ rest[1] = Ch(".")
    THEN Let(ScanNanosecond(Tail(rest)),
             LAMBDA r : IF IsNone(r) THEN None
                        ELSE Some([nano |-> Some(r[1].v), rest |-> r[1].rest]))
    ELSE Some([nano |-> None, rest |-> rest])

\* the zone of an RFC 3339 instant: Some(offset in seconds) for "Z" or an
\* offset with a colon, hours up to 23 and minutes up to 59, its sign a plus,
\* a hyphen or the minus sign U+2212; None otherwise
Rfc3339Zone(zone) ==
    IF zone \in {Str(<<"Z">>), Str(<<"z">>)} THEN Some(0)
    ELSE IF /\ Len(zone) = 6
            /\ zone[1] \in {Ch("+"), Ch("-"), \h2212}
            /\ IsDigitChar(zone[2]) /\ IsDigitChar(zone[3])
            /\ zone[4] = Ch(":")
            /\ IsDigitChar(zone[5]) /\ IsDigitChar(zone[6])
            /\ DigitVal(zone[5]) <= 5
            /\ DigitVal(zone[2]) * 10 + DigitVal(zone[3]) <= 23
    THEN Some((IF zone[1] = Ch("+") THEN 1 ELSE -1)
              * ((DigitVal(zone[2]) * 10 + DigitVal(zone[3])) * 3600
                 + (DigitVal(zone[5]) * 10 + DigitVal(zone[6])) * 60))
    ELSE None

\* the number written in characters i..j of s
NumberAt(s, i, j) == DigitsValueTo(SubSeq(s, i, j), j - i + 1)

\* DateTime::parse_from_rfc3339: date, "T", time with seconds, an optional
\* fraction, and "Z" or an offset with a colon; the local date and time as written
parse_from_rfc3339(s) ==
    IF ~Rfc3339Shape(s) THEN None
    ELSE Let(AfterFraction(DropTo(s, 20)),
             LAMBDA f :
                 IF IsNone(f) THEN None
                 ELSE Let(Rfc3339Zone(f[1].rest),
                 LAMBDA zone :
                     IF IsNone(zone) THEN None
                     ELSE to_datetime(
                              [EmptyParsed EXCEPT
                                  !.year = Some(NumberAt(s, 1, 4)),
                                  !.month = Some(NumberAt(s, 6, 7)),
                                  !.day = Some(NumberAt(s, 9, 10)),
                                  !.hour_div_12 = Some(NumberAt(s, 12, 13) \div 12),
                                  !.hour_mod_12 = Some(NumberAt(s, 12, 13) % 12),
                                  !.minute = Some(NumberAt(s, 15, 16)),
                                  !.second = Some(NumberAt(s, 18, 19)),
                                  !.nanosecond = f[1].nano,
                                  !.offset = zone])))

\* the date-time formats parse_coda_datetime tries after the two with an
\* offset, each with the string it is applied to: the trimmed input, or its
\* upper-cased form for the 12-hour formats
CodaDateTimeFormats ==
    << [upper |-> FALSE, fmt |-> <<"%Y", "-", "%m", "-", "%d", "T", "%H", ":", "%M", ":", "%S">>],
       [upper |-> FALSE, fmt |-> <<"%Y", "-", "%m", "-", "%d", "T", "%H", ":", "%M", ":", "%S", "%.f">>],
       [upper |-> FALSE, fmt |-> <<"%Y", "-", "%m", "-", "%d", "T", "%H", ":", "%M">>],
       [upper |-> FALSE, fmt |-> <<"%Y", "-", "%m", "-", "%d", " ", "%H", ":", "%M", ":", "%S">>],
       [upper |-> FALSE, fmt |-> <<"%Y", "-", "%m", "-", "%d", " ", "%H", ":", "%M">>],
       [upper |-> TRUE,  fmt |-> <<"%m", "/", "%d", "/", "%Y", " ", "%I", ":", "%M", " ", "%p">>],
       [upper |-> TRUE,  fmt |-> <<"%m", "/", "%d", "/", "%Y", " ", "%I", ":", "%M", ":", "%S", " ", "%p">>] >>

\* date-only formats that try the day-first slash date before the month-first
CodaDateFormats_day_first ==
    << <<"%Y", "-", "%m", "-", "%d">>,
       <<"%d", "/", "%m", "/", "%Y">>,
       <<"%m", "/", "%d", "/", "%Y">> >>

\* the date-only formats parse_coda_datetime tries last
CodaDateFormats ==
    << <<"%Y", "-", "%m", "-", "%d">>,
       <<"%m", "/", "%d", "/", "%Y">>,
       <<"%d", "/", "%m", "/", "%Y">> >>

\* the date and time of the first format of the list that parses s
RECURSIVE FirstDateTime(_, _)
FirstDateTime(s, formats) ==
    IF Len(formats) = 0 THEN None
    ELSE Let(NaiveDateTime_parse_from_str(
                 IF formats[1].upper THEN to_uppercase(s) ELSE s, formats[1].fmt),
             LAMBDA r : IF IsSome(r) THEN r ELSE FirstDateTime(s, Tail(formats)))

\* a parsed date and time as parse_coda_datetime returns it
Timed(r) == Some([date |-> r[1].date, time |-> Some(r[1].time)])

\* a parsed date as parse_coda_datetime returns it
DateOnly(d) == IF IsSome(d) THEN Some([date |-> d[1], time |-> None]) ELSE None

\* the format with an offset and no fraction
OffsetFormat == <<"%Y", "-", "%m", "-", "%d", "T", "%H", ":", "%M", ":", "%S", "%:z">>

\* parse_coda_datetime, after the input is trimmed: Some([date, time]) with
\* time an Option, or None for the "Could not parse datetime" error
parse_coda_datetime_trimmed(s) ==
    Let(parse_from_rfc3339(s),
        LAMBDA a : IF IsSome(a) THEN Timed(a)
        ELSE Let(DateTime_parse_from_str(s, OffsetFormat),
        LAMBDA b : IF IsSome(b) THEN Timed(b)
        ELSE Let(FirstDateTime(s, CodaDateTimeFormats),
        LAMBDA c : IF IsSome(c) THEN Timed(c)
        ELSE DateOnly(FirstDate(s, CodaDateFormats)))))

parse_coda_datetime(raw) == Let(trim(raw), parse_coda_datetime_trimmed)

\* NaiveDateTime + Duration panics when the sum is past the last date and
\* time there is: start + 150 minutes on the last date, past midnight
AddOverflows(start_date, start_time) ==
    /\ IsSome(start_time)
    /\ start_date = MaxDate
    /\ start_time[1].secs + DEFAULT_EVENT_DURATION_MINUTES * 60 >= SecondsPerDay

\* the thread panicking inside a function that returns a Result
Panicked == [ok |-> FALSE, v |-> "Panic"]

\* the end time parse_coda_row derives: the time of day of start + 150
\* minutes; a start within a leap second counts as within the second before
DerivedEndTime(t) ==
    NaiveTime((t.secs + DEFAULT_EVENT_DURATION_MINUTES * 60) % SecondsPerDay,
              IF t.frac >= NanosPerSecond THEN t.frac - NanosPerSecond ELSE t.frac)

\* the Purchased column read as a flag
IsPurchased(text) ==
    IsSome(text) /\ to_lowercase(text[1]) \in {Str(<<"y", "e", "s">>), Str(<<"t", "r", "u", "e">>)}

\* end_time: the start time mapped to the derived end time
DerivedEnd(start_time) ==
    IF IsSome(start_time) THEN Some(DerivedEndTime(start_time[1])) ELSE None

\* parse_coda_row
parse_coda_row(values) ==
    Let(get_string_value(values, "Display"),
        LAMBDA title : IF IsNone(title) THEN Err("Missing 'Display' column")
        ELSE Let(get_string_value(values, "performanceDate"),
        LAMBDA perf : IF IsNone(perf) THEN Err("Missing 'performanceDate' column")
        ELSE Let(parse_coda_datetime(perf[1]),
        LAMBDA when : IF IsNone(when) THEN Err("Invalid performanceDate")
        ELSE IF AddOverflows(when[1].date, when[1].time) THEN Panicked
        ELSE Ok(CalendarEvent(
                 title[1],
                 build_description(values),
                 get_string_value(values, "venue"),
                 get_string_value(values, "Organization"),
                 IsPurchased(get_string_value(values, "Purchased")),
                 when[1].date,
                 when[1].time,
                 when[1].date,
                 DerivedEnd(when[1].time))))))

\* the row loop of fetch_events: Some(acc and the events of the rows that
\* parse, in row order); a row that fails is logged and skipped; None when
\* parse_coda_row panics on a row
RECURSIVE coda_page_events(_, _)
coda_page_events(items, acc) ==
    IF Len(items) = 0 THEN Some(acc)
    ELSE Let(parse_coda_row(items[1]),
             LAMBDA r : IF r.ok THEN coda_page_events(Tail(items), Append(acc, r.v))
                        ELSE IF r.v = "Panic" THEN None
                        ELSE coda_page_events(Tail(items), acc))

----------------------------------------------------------------------------
(* main.rs: filter_events *)

\* the closure with the bounds themselves left out
FilterKeeps_exclusive_bounds(e, start_date, end_date, purchased_only) ==
    /\ ~(IsSome(start_date) /\ DateLe(e.start_date, start_date[1]))
    /\ ~(IsSome(end_date) /\ DateLe(end_date[1], e.start_date))
    /\ ~(purchased_only /\ ~e.purchased)

\* the closure of filter_events: whether the event is kept
FilterKeeps(e, start_date, end_date, purchased_only) ==
    /\ ~(IsSome(start_date) /\ DateLt(e.start_date, start_date[1]))
    /\ ~(IsSome(end_date) /\ DateLt(end_date[1], e.start_date))
    /\ ~(purchased_only /\ ~e.purchased)

\* Ord for Option<NaiveTime>: None is less than any Some
OptionTimeLt(a, b) ==
    \/ IsNone(a) /\ IsSome(b)
    \/ IsSome(a) /\ IsSome(b) /\ TimeLt(a[1], b[1])

\* the comparator with the start_date alone
SortsBefore_date_only(a, b) == DateLt(a.start_date, b.start_date)

\* the comparator of sort_by, as "a sorts before b":
\* start_date, then start_time
SortsBefore(a, b) ==
    \/ DateLt(a.start_date, b.start_date)
    \/ a.start_date = b.start_date /\ OptionTimeLt(a.start_time, b.start_time)

\* x inserted into the sorted list after every element that does not sort after it
RECURSIVE InsertSorted(_, _)
InsertSorted(sorted, x) ==
    IF Len(sorted) = 0 THEN <<x>>
    ELSE IF SortsBefore(x, sorted[1]) THEN <<x>> \o sorted
    ELSE <<sorted[1]>> \o InsertSorted(Tail(sorted), x)

\* slice::sort_by with the comparator above: a stable sort
RECURSIVE sort_by(_)
sort_by(list) ==
    IF Len(list) = 0 THEN <<>>
    ELSE Let(sort_by(SubSeq(list, 1, Len(list) - 1)),
             LAMBDA sorted : InsertSorted(sorted, list[Len(list)]))

\* filter_events
filter_events(list, start_date, end_date, purchased_only) ==
    LET keep(e) == FilterKeeps(e, start_date, end_date, purchased_only)
    IN  sort_by(SelectSeq(list, keep))

----------------------------------------------------------------------------
(* chrono_tz::America::Los_Angeles: the zone of the tz database. Local mean *)
(* time until 1883-11-18, then Pacific standard time with daylight time     *)
(* under the rules US (1918-1945, 1967 on) and CA (1946-1966); the rule of   *)
(* 2007 is the one of every later year.                                     *)
(* calendar.rs hands a wall-clock time to the crate and takes what it       *)
(* returns. The zone fixes the instants at which the clocks show a time;    *)
(* two things are the crate's own, and the code of calendar.rs settles      *)
(* neither: whether the second a stretch of local time ends at still        *)
(* belongs to it, and which of the two instants of LocalResult::Ambiguous   *)
(* comes second. A LocalResultRule is one way the crate can have them.      *)

\* seconds to add to a local mean time of Los Angeles to get UTC (7:52:58)
LmtToUtc == 7 * 3600 + 52 * 60 + 58

\* seconds to add to a Pacific standard wall-clock time to get UTC
PstToUtc == 8 * 3600

\* seconds to add to a Pacific daylight wall-clock time to get UTC
PdtToUtc == 7 * 3600

\* the n-th Sunday of month m of year y
NthSunday(y, m, n) ==
    LET first == ((7 - Weekday(Date(y, m, 1))) % 7) + 1
    IN  Date(y, m, first + 7 * (n - 1))

\* the last Sunday of month m of year y
LastSunday(y, m) ==
    LET last == DaysInMonth(y, m)
    IN  Date(y, m, last - Weekday(Date(y, m, last)))

\* a stretch of daylight time: from start on the standard wall clock to end
\* on the daylight wall clock
DaylightSpan(start, end) == [start |-> start, end |-> end]

\* the stretches of daylight time that wall-clock times of year y can be in
DaylightSpans(y) ==
    LET to(start, end) == {DaylightSpan(start, and_time(end, Hms(2, 0, 0)))}
        at(dt, h)      == and_time(dt, Hms(h, 0, 0))
    IN  IF y \in 1918..1919 THEN to(at(LastSunday(y, 3), 2), LastSunday(y, 10))
        ELSE IF y \in 1942..1945
        THEN to(at(Date(1942, 2, 9), 2), Date(1945, 9, 30))
        ELSE IF y \in 1948..1949
        THEN to(and_time(Date(1948, 3, 14), Hms(2, 1, 0)), Date(1949, 1, 1))
        ELSE IF y \in 1950..1961 THEN to(at(LastSunday(y, 4), 1), LastSunday(y, 9))
        ELSE IF y \in 1962..1966 THEN to(at(LastSunday(y, 4), 1), LastSunday(y, 10))
        ELSE IF y \in 1967..1973 THEN to(at(LastSunday(y, 4), 2), LastSunday(y, 10))
        ELSE IF y = 1974 THEN to(at(Date(1974, 1, 6), 2), LastSunday(y, 10))
        ELSE IF y = 1975 THEN to(at(Date(1975, 2, 23), 2), LastSunday(y, 10))
        ELSE IF y \in 1976..1986 THEN to(at(LastSunday(y, 4), 2), LastSunday(y, 10))
        ELSE IF y \in 1987..2006 THEN to(at(NthSunday(y, 4, 1), 2), LastSunday(y, 10))
        ELSE IF y >= 2007
        THEN to(at(NthSunday(y, 3, 2), 2), NthSunday(y, 11, 1))
        ELSE {}

\* the wall-clock time the zone goes from local mean time to standard time
\* at, on the standard clock (12:00:00) and on the local mean clock (12:07:02)
StandardFrom == and_time(Date(1883, 11, 18), Hms(12, 0, 0))

LmtUntil == and_time(Date(1883, 11, 18), Hms(12, 7, 2))

\* the ways the crate can treat the end of a stretch and order Ambiguous:
\* closed, a stretch of local time holds the second it ends at; later_last,
\* the second instant of Ambiguous is the later one
LocalResultRules == [closed : BOOLEAN, later_last : BOOLEAN]

\* TimeZone::from_local_datetime for Los_Angeles under a rule: the LocalResult
\* as the list of its instants, <<>> for None (the wall-clock time is skipped
\* by a transition, or the instant is past the last one there is), <<t>> for
\* Single(t), <<t1, t2>> for Ambiguous(t1, t2) (the time occurs before a
\* transition and again after it). The time is looked up by its whole seconds.
from_local_datetime(rule, ndt) ==
    LET w        == and_time(ndt.date, NaiveTime(ndt.time.secs, 0))
        spans    == DaylightSpans(ndt.date.y)
        ends(u)  == rule.closed /\ w = u
        lmt      == DateTimeLt(w, LmtUntil) \/ ends(LmtUntil)
        daylight == \E sp \in spans :
                        /\ DateTimeLe(ShiftSeconds(sp.start, 3600)[1], w)
                        /\ DateTimeLt(w, sp.end) \/ ends(sp.end)
        standard == /\ DateTimeLe(StandardFrom, w)
                    /\ \A sp \in spans :
                           \/ DateTimeLt(w, sp.start) \/ ends(sp.start)
                           \/ DateTimeLe(ShiftSeconds(sp.end, -3600)[1], w)
        instants == (IF lmt THEN <<ShiftSeconds(ndt, LmtToUtc)>> ELSE <<>>)
                    \o (IF daylight THEN <<ShiftSeconds(ndt, PdtToUtc)>> ELSE <<>>)
                    \o (IF standard THEN <<ShiftSeconds(ndt, PstToUtc)>> ELSE <<>>)
    IN  IF \E i \in 1..Len(instants) : IsNone(instants[i]) THEN <<>>
        ELSE IF rule.later_last THEN [i \in 1..Len(instants) |-> instants[i][1]]
        ELSE [i \in 1..Len(instants) |-> instants[Len(instants) + 1 - i][1]]

\* LocalResult::single
single(r) == IF Len(r) = 1 THEN Some(r[1]) ELSE None

\* LocalResult::latest: the second instant of Ambiguous
latest(r) == IF Len(r) = 0 THEN None ELSE Some(r[Len(r)])

\* .single().unwrap_or_else(|| ....latest().unwrap()): Some(instant), or None
\* when unwrap() is called on None and the thread panics
ResolvePacific(rule, ndt) ==
    Let(from_local_datetime(rule, ndt),
        LAMBDA r : IF IsSome(single(r)) THEN single(r) ELSE latest(r))

----------------------------------------------------------------------------
(* calendar.rs: the wire event and convert_to_google_event *)

\* google_calendar3::api::EventDateTime
EventDateTime(date, date_time, time_zone) ==
    [date |-> date, date_time |-> date_time, time_zone |-> time_zone]

\* google_calendar3::api::Event, the fields the program reads or writes
Event(id, summary, description, location, start, end) ==
    [id |-> id, summary |-> summary, description |-> description,
     location |-> location, start |-> start, end |-> end]

\* convert_to_google_event with the end of an all-day event left as the
\* event's own end_date
convert_to_google_event_inclusive_end(rule, event) ==
    IF is_all_day(event)
    THEN Some(Event(None, Some(event.title), event.description, event.location,
                    Some(EventDateTime(Some(event.start_date), None, None)),
                    Some(EventDateTime(Some(event.end_date), None, None))))
    ELSE LET start_pacific == ResolvePacific(rule, start_datetime(event))
             end_pacific   == ResolvePacific(rule, end_datetime(event))
         IN  IF IsNone(start_pacific) \/ IsNone(end_pacific) THEN None
             ELSE Some(Event(None, Some(event.title), event.description, event.location,
                        Some(EventDateTime(None, start_pacific, Some("America/Los_Angeles"))),
                        Some(EventDateTime(None, end_pacific, Some("America/Los_Angeles")))))

\* convert_to_google_event, the crate under a rule: Some(event), or None
\* when the call panics
convert_to_google_event(rule, event) ==
    IF is_all_day(event)
    THEN LET end_date == unwrap_or(succ_opt(event.end_date), event.end_date)
         IN  Some(Event(None, Some(event.title), event.description, event.location,
                        Some(EventDateTime(Some(event.start_date), None, None)),
                        Some(EventDateTime(Some(end_date), None, None))))
    ELSE LET start_pacific == ResolvePacific(rule, start_datetime(event))
             end_pacific   == ResolvePacific(rule, end_datetime(event))
         IN  IF IsNone(start_pacific) \/ IsNone(end_pacific) THEN None
             ELSE Some(Event(None, Some(event.title), event.description, event.location,
                        Some(EventDateTime(None, start_pacific, Some("America/Los_Angeles"))),
                        Some(EventDateTime(None, end_pacific, Some("America/Los_Angeles")))))


----------------------------------------------------------------------------
(* calendar.rs: find_matching_events *)

\* FoundCalendarEvent
FoundCalendarEvent(id, title, date, location) ==
    [id |-> id, title |-> title, date |-> date, location |-> location]

\* extract_event_date
extract_event_date(event) ==
    IF IsSome(event.start)
    THEN IF IsSome(event.start[1].date) THEN Some(event.start[1].date[1])
         ELSE IF IsSome(event.start[1].date_time)
         THEN Some(date_naive(event.start[1].date_time[1]))
         ELSE None
    ELSE None

\* gcal_event.summary.as_deref().unwrap_or("")
gcal_title(gcal_event) == unwrap_or(gcal_event.summary, <<>>)

\* the inner loop's body with the titles compared as they are written
MatchPair_case_sensitive(coda_event, gcal_event) ==
    LET date == extract_event_date(gcal_event)
    IN  IF /\ IsSome(date)
           /\ gcal_title(gcal_event) = coda_event.title
           /\ date[1] = coda_event.start_date
           /\ IsSome(gcal_event.id)
        THEN << <<coda_event,
                  FoundCalendarEvent(gcal_event.id[1], gcal_title(gcal_event),
                                     date[1], gcal_event.location)>> >>
        ELSE <<>>

\* the body of the inner loop: the pair pushed for one local event and one
\* remote event, as a list of zero or one pairs
MatchPair(coda_event, gcal_event) ==
    LET date == extract_event_date(gcal_event)
    IN  IF /\ IsSome(date)
           /\ to_lowercase(gcal_title(gcal_event)) = to_lowercase(coda_event.title)
           /\ date[1] = coda_event.start_date
           /\ IsSome(gcal_event.id)
        THEN << <<coda_event,
                  FoundCalendarEvent(gcal_event.id[1], gcal_title(gcal_event),
                                     date[1], gcal_event.location)>> >>
        ELSE <<>>

\* the inner loop: one local event against every fetched remote event, in order
RECURSIVE MatchOne(_, _)
MatchOne(coda_event, gcal_events) ==
    IF Len(gcal_events) = 0 THEN <<>>
    ELSE MatchPair(coda_event, gcal_events[1]) \o MatchOne(coda_event, Tail(gcal_events))

\* the outer loop: every local event, in order
RECURSIVE MatchAll(_, _)
MatchAll(local, gcal_events) ==
    IF Len(local) = 0 THEN <<>>
    ELSE MatchOne(local[1], gcal_events) \o MatchAll(Tail(local), gcal_events)

\* the minimum and maximum start_date of a non-empty list of events
min_date(list) ==
    CHOOSE d \in {list[i].start_date : i \in 1..Len(list)} :
        \A i \in 1..Len(list) : DateLe(d, list[i].start_date)

max_date(list) ==
    CHOOSE d \in {list[i].start_date : i \in 1..Len(list)} :
        \A i \in 1..Len(list) : DateLe(list[i].start_date, d)

\* time_min: midnight UTC of the minimum start_date
time_min(list) == and_time(min_date(list), Hms(0, 0, 0))

\* time_max: midnight UTC of the day after the maximum start_date; the
\* unwrap() of succ_opt panics when there is no such day
time_max_panics(list) == IsNone(succ_opt(max_date(list)))

\* an upper bound at midnight of the maximum start_date itself
time_max_same_day(list) == and_time(max_date(list), Hms(0, 0, 0))

time_max(list) == and_time(succ_opt(max_date(list))[1], Hms(0, 0, 0))

----------------------------------------------------------------------------
(* Bounds and inputs *)

\* the most lines of a CSV file, and the most rows a Coda table returns over
\* all its pages
MaxRows == 3

\* the most rows of one page of the Coda row listing
MaxPageRows == 2

\* the most events handed to filter_events
MaxEvents == 3

\* the most local events handed to find_matching_events
MaxLocal == 2

\* the most events the remote calendar returns over all the pages of a listing
MaxRemote == 3

\* the most events of one page of the remote listing
MaxPageItems == 3

\* the number of list requests that fetch_log records
MaxPages == 2

\* the sequences over S of length at most n
SeqsUpTo(S, n) == UNION {[1..k -> S] : k \in 0..n}


\* Lines of a CSV file: well_formed is whether the line deserializes into a
\* CsvRecord (it has the fields of the header); the rest are its fields
CsvAllDay ==
    [well_formed |-> TRUE, title |-> Str(<<"G","a","l","a">>), description |-> Str(<<"A","n","n","u","a","l">>), location |-> Str(<<"H","a","l","l">>),
      start_date |-> Str(<<"2","0","2","4","-","0","1","-","1","5">>),
      start_time |-> <<>>, end_date |-> <<>>,
      end_time |-> <<>>]

CsvTimed ==
    [well_formed |-> TRUE, title |-> Str(<<"O","p","e","r","a">>), description |-> <<>>, location |-> <<>>,
      start_date |-> Str(<<"0","1","/","3","1","/","2","0","2","4">>),
      start_time |-> Str(<<"1","9",":","3","0">>), end_date |-> <<>>,
      end_time |-> Str(<<"1","0",":","0","0"," ","p","m">>)]

CsvStartOnly ==
    [well_formed |-> TRUE, title |-> Str(<<"T","a","l","k">>), description |-> <<>>, location |-> <<>>,
      start_date |-> Str(<<"2","0","2","4","/","0","2","/","0","1">>),
      start_time |-> Str(<<"9",":","0","0"," ","A","M">>), end_date |-> <<>>,
      end_time |-> <<>>]

CsvBadDate ==
    [well_formed |-> TRUE, title |-> Str(<<"B","a","d">>), description |-> <<>>, location |-> <<>>,
      start_date |-> Str(<<"t","o","m","o","r","r","o","w">>),
      start_time |-> <<>>, end_date |-> <<>>,
      end_time |-> <<>>]

CsvBadEndTime ==
    [well_formed |-> TRUE, title |-> Str(<<"L","a","t","e">>), description |-> <<>>, location |-> <<>>,
      start_date |-> Str(<<"0","3","-","0","1","-","2","0","2","4">>),
      start_time |-> Str(<<"2","3",":","0","0">>), end_date |-> <<>>,
      end_time |-> Str(<<"2","5",":","0","0">>)]

CsvNoTitleEndsEarly ==
    [well_formed |-> TRUE, title |-> <<>>, description |-> <<>>, location |-> <<>>,
      start_date |-> Str(<<" ","1","5","/","0","1","/","2","0","2","4"," ">>),
      start_time |-> <<>>, end_date |-> Str(<<"2","0","2","4","-","0","1","-","1","4">>),
      end_time |-> <<>>]

CsvMalformed ==
    [well_formed |-> FALSE, title |-> Str(<<"S","h","o","r","t">>), description |-> <<>>, location |-> <<>>,
      start_date |-> Str(<<"2","0","2","4","-","0","1","-","1","5">>),
      start_time |-> <<>>, end_date |-> <<>>,
      end_time |-> <<>>]

CsvLinePool ==
    {CsvAllDay, CsvTimed, CsvStartOnly, CsvBadDate, CsvBadEndTime,
     CsvNoTitleEndsEarly, CsvMalformed}

\* Rows of a Coda table: the cell under each column name the program reads
CodaTimed ==
    [Display |-> JsonString(Str(<<"G","a","l","a">>)),
      performanceDate |-> JsonString(Str(<<"2","0","2","4","-","0","7","-","1","7","T","1","9",":","3","0",":","0","0",".","0","0","0","-","0","7",":","0","0">>)),
      Organization |-> JsonString(Str(<<"S","F","O">>)), Purchased |-> JsonString(Str(<<"Y","e","s">>)),
      venue |-> JsonString(Str(<<"H","a","l","l">>)), kenticoUrl |-> JsonString(Str(<<"u">>)),
      artists |-> JsonAbsent, works |-> JsonString(Str(<<"w">>))]

CodaDateOnly ==
    [Display |-> JsonString(Str(<<"O","p","e","r","a">>)),
      performanceDate |-> JsonString(Str(<<"2","0","2","4","-","0","2","-","1","5">>)),
      Organization |-> JsonAbsent, Purchased |-> JsonString(Str(<<"n","o">>)),
      venue |-> JsonAbsent, kenticoUrl |-> JsonAbsent,
      artists |-> JsonAbsent, works |-> JsonAbsent]

CodaNoDisplay ==
    [Display |-> JsonNull,
      performanceDate |-> JsonString(Str(<<"2","0","2","4","-","0","2","-","1","5","T","1","9",":","3","0",":","0","0">>)),
      Organization |-> JsonAbsent, Purchased |-> JsonAbsent,
      venue |-> JsonAbsent, kenticoUrl |-> JsonAbsent,
      artists |-> JsonAbsent, works |-> JsonAbsent]

CodaLate ==
    [Display |-> JsonString(Str(<<"L","a","t","e">>)),
      performanceDate |-> JsonString(Str(<<"2","/","1","5","/","2","0","2","4"," ","1","1",":","3","0"," ","p","m">>)),
      Organization |-> JsonAbsent, Purchased |-> JsonOther(Str(<<"t","r","u","e">>)),
      venue |-> JsonAbsent, kenticoUrl |-> JsonAbsent,
      artists |-> JsonAbsent, works |-> JsonAbsent]

CodaBadDate ==
    [Display |-> JsonOther(Str(<<"7">>)),
      performanceDate |-> JsonString(Str(<<"s","o","o","n">>)),
      Organization |-> JsonAbsent, Purchased |-> JsonAbsent,
      venue |-> JsonAbsent, kenticoUrl |-> JsonAbsent,
      artists |-> JsonAbsent, works |-> JsonAbsent]

CodaBlankDisplay ==
    [Display |-> JsonString(Str(<<" ", " ">>)),
      performanceDate |-> JsonString(Str(<<"1","3","/","0","2","/","2","0","2","4">>)),
      Organization |-> JsonAbsent, Purchased |-> JsonAbsent,
      venue |-> JsonAbsent, kenticoUrl |-> JsonAbsent,
      artists |-> JsonAbsent, works |-> JsonAbsent]

CodaSlash ==
    [Display |-> JsonString(Str(<<"B","a","l","l","e","t">>)),
      performanceDate |-> JsonString(Str(<<" ","0","1","/","0","2","/","2","0","2","4"," ">>)),
      Organization |-> JsonAbsent, Purchased |-> JsonAbsent,
      venue |-> JsonAbsent, kenticoUrl |-> JsonAbsent,
      artists |-> JsonAbsent, works |-> JsonAbsent]

CodaSpace ==
    [Display |-> JsonString(Str(<<"R","e","c","i","t","a","l">>)),
      performanceDate |-> JsonString(Str(<<"2","0","2","4","-","0","2","-","1","5"," ","1","9",":","3","0">>)),
      Organization |-> JsonAbsent, Purchased |-> JsonAbsent,
      venue |-> JsonAbsent, kenticoUrl |-> JsonAbsent,
      artists |-> JsonAbsent, works |-> JsonAbsent]

CodaRowPool ==
    {CodaTimed, CodaDateOnly, CodaNoDisplay, CodaLate, CodaBadDate, CodaBlankDisplay,
     CodaSlash, CodaSpace}


\* Events handed to filter_events: the dates of the filtering example and
\* the two bounds themselves, with and without a start time, purchased or
\* not; FilterC and FilterD are equal on (start_date, start_time)
FilterEvent(title, purchased, start_date, start_time, end_date, end_time) ==
    CalendarEvent(title, None, None, None, purchased,
                  start_date, start_time, end_date, end_time)

FilterA == FilterEvent(Str(<<"A">>), TRUE, Date(2024, 1, 1), None, Date(2024, 1, 20), None)

FilterB == FilterEvent(Str(<<"B">>), FALSE, Date(2024, 1, 15), None, Date(2024, 1, 15), None)

FilterC == FilterEvent(Str(<<"C">>), TRUE, Date(2024, 1, 15), Some(Hms(9, 0, 0)),
                       Date(2024, 1, 15), Some(Hms(10, 0, 0)))

FilterD == FilterEvent(Str(<<"D">>), FALSE, Date(2024, 1, 15), Some(Hms(9, 0, 0)),
                       Date(2024, 1, 15), Some(Hms(11, 0, 0)))

FilterE == FilterEvent(Str(<<"E">>), TRUE, Date(2024, 2, 1), None, Date(2024, 2, 1), None)

FilterF == FilterEvent(Str(<<"F">>), FALSE, Date(2024, 1, 10), Some(Hms(18, 0, 0)),
                       Date(2024, 1, 10), Some(Hms(20, 30, 0)))

FilterG == FilterEvent(Str(<<"G">>), TRUE, Date(2024, 1, 31), Some(Hms(8, 0, 0)),
                       Date(2024, 2, 2), Some(Hms(8, 0, 0)))

FilterEventPool == {FilterA, FilterB, FilterC, FilterD, FilterE, FilterF, FilterG}

\* the bounds given on the command line
StartBoundPool == {None, Some(Date(2024, 1, 10)), Some(Date(2024, 1, 15))}

EndBoundPool == {None, Some(Date(2024, 1, 31)), Some(Date(2024, 1, 15))}

\* Events handed to convert_to_google_event: ends of months and of years, a
\* leap day, the two days of 2024 on which Pacific time changes, a summer
\* day of 2100, and the last date there is; times inside and outside the
\* hours that change, and the second the change is at
ProjectDatePool ==
    {Date(2024, 1, 31), Date(2024, 2, 28), Date(2024, 2, 29), Date(2023, 2, 28),
     Date(2024, 12, 31), Date(2024, 3, 10), Date(2024, 11, 3), Date(2100, 7, 1),
     MaxDate}

ProjectTimePool ==
    {None, Some(Hms(1, 30, 0)), Some(Hms(2, 0, 0)), Some(Hms(2, 30, 0)),
     Some(Hms(19, 30, 0))}

ProjectEventPool ==
    {CalendarEvent(Str(<<"P">>), None, None, None, FALSE, sd, st, ed, et) :
        sd \in ProjectDatePool, st \in ProjectTimePool,
        ed \in ProjectDatePool, et \in ProjectTimePool}

\* Local events handed to find_matching_events
LocalGala ==
    CalendarEvent(Str(<<"G","a","l","a">>), None, None, None, FALSE,
                  Date(2024, 3, 1), None, Date(2024, 3, 1), None)

LocalGalaNextDay ==
    CalendarEvent(Str(<<"g","a","l","a">>), None, None, None, TRUE,
                  Date(2024, 3, 2), Some(Hms(19, 30, 0)), Date(2024, 3, 2), Some(Hms(22, 0, 0)))

LocalOpera ==
    CalendarEvent(Str(<<"O","p","e","r","a">>), None, Some(Str(<<"W","a","r"," ","M","e","m","o","r","i","a","l">>)), None, FALSE,
                  Date(2024, 3, 1), Some(Hms(19, 30, 0)), Date(2024, 3, 1), Some(Hms(22, 0, 0)))

LocalEventPool == {LocalGala, LocalGalaNextDay, LocalOpera}

\* Events the remote calendar lists: with the title in another case, with a
\* date or with an instant as start, without an id, without a summary or a start
RemoteGalaLower ==
    Event(Some("a"), Some(Str(<<"g","a","l","a">>)), None, Some(Str(<<"H","a","l","l">>)),
          Some(EventDateTime(Some(Date(2024, 3, 1)), None, None)),
          Some(EventDateTime(Some(Date(2024, 3, 2)), None, None)))

RemoteGalaUpper ==
    Event(Some("b"), Some(Str(<<"G","A","L","A">>)), None, None,
          Some(EventDateTime(Some(Date(2024, 3, 1)), None, None)),
          Some(EventDateTime(Some(Date(2024, 3, 2)), None, None)))

\* 2024-03-01T19:30 Pacific standard time, which is 2024-03-02T03:30Z
RemoteOperaTimed ==
    Event(Some("c"), Some(Str(<<"o","p","e","r","a">>)), None, None,
          Some(EventDateTime(None, Some(and_time(Date(2024, 3, 2), Hms(3, 30, 0))),
                             Some("America/Los_Angeles"))),
          Some(EventDateTime(None, Some(and_time(Date(2024, 3, 2), Hms(6, 0, 0))),
                             Some("America/Los_Angeles"))))

RemoteGalaNoId ==
    Event(None, Some(Str(<<"G","a","l","a">>)), None, None,
          Some(EventDateTime(Some(Date(2024, 3, 1)), None, None)),
          Some(EventDateTime(Some(Date(2024, 3, 2)), None, None)))

RemoteBlank == Event(Some("e"), None, None, None, None, None)

RemoteEventPool ==
    {RemoteGalaLower, RemoteGalaUpper, RemoteOperaTimed, RemoteGalaNoId, RemoteBlank}

\* the events of a listing that is followed over its pages
PagedEventPool == {RemoteGalaLower, RemoteBlank}

\* the page tokens the remote calendar hands out
TokenPool == {None, Some("t1"), Some("t2")}


----------------------------------------------------------------------------
(* The run of main, one action per step *)

\* the command line of Import and CodaImport
Cli(command, dry_run, stats, start_date, end_date, purchased, delete) ==
    [command |-> command, dry_run |-> dry_run, stats |-> stats,
     start_date |-> start_date, end_date |-> end_date,
     purchased |-> purchased, delete |-> delete]

\* main returns: Ok(()) or an error; "Panic" is the thread panicking
Finish(result) == pc' = "done" /\ outcome' = result

\* Commands::Import: csv_parser::parse_csv on a file with lines from the pool
ParseCsv(pool) ==
    /\ pc = "start"
    /\ cli.command = "Import"
    /\ \E opened \in BOOLEAN :
       \E lines \in (IF opened THEN SeqsUpTo(pool, MaxRows) ELSE {<<>>}) :
       \E r \in {parse_csv(opened, lines)} :
          /\ rows' = lines
          /\ IF r.ok
             THEN /\ all_events' = r.v
                  /\ pc' = "parsed"
                  /\ outcome' = outcome
             ELSE /\ all_events' = all_events
                  /\ Finish("Err")
    /\ UNCHANGED <<cli, events, coda_token, page_token, all_gcal_events, fetch_log,
                   matches, insert_calls, delete_calls>>

\* Commands::CodaImport: coda::get_api_token, which fails when the variable
\* is not set, and the start of fetch_events
CodaStart ==
    /\ pc = "start"
    /\ cli.command = "CodaImport"
    /\ \E token_set \in BOOLEAN :
          IF token_set
          THEN pc' = "coda_fetching" /\ outcome' = outcome
          ELSE Finish("Err")
    /\ coda_token' = None
    /\ UNCHANGED <<cli, rows, all_events, events, page_token, all_gcal_events,
                   fetch_log, matches, insert_calls, delete_calls>>

\* one turn of the loop of fetch_events: a request, which fails or returns a
\* page of rows from the pool and maybe a token for the next page
FetchCodaPage(pool) ==
    /\ pc = "coda_fetching"
    /\ \/ /\ Finish("Err")
          /\ UNCHANGED <<rows, all_events, coda_token>>
       \/ \E items \in SeqsUpTo(pool, MaxPageRows), next \in {None, Some("c1")} :
          /\ Len(rows) + Len(items) <= MaxRows
          /\ \E page \in {coda_page_events(items, all_events)} :
             /\ rows' = rows \o items
             /\ IF IsNone(page)
                THEN /\ Finish("Panic")
                     /\ UNCHANGED <<all_events, coda_token>>
                ELSE /\ all_events' = page[1]
                     /\ coda_token' = next
                     /\ pc' = IF IsNone(next) THEN "parsed" ELSE "coda_fetching"
                     /\ outcome' = outcome
    /\ UNCHANGED <<cli, events, page_token, all_gcal_events, fetch_log, matches,
                   insert_calls, delete_calls>>

\* filter_events on the mapped events
FilterEvents ==
    /\ pc = "parsed"
    /\ events' = filter_events(all_events, cli.start_date, cli.end_date, cli.purchased)
    /\ pc' = "filtered"
    /\ UNCHANGED <<cli, rows, all_events, coda_token, page_token, all_gcal_events,
                   fetch_log, matches, insert_calls, delete_calls, outcome>>

\* --delete: create_calendar_hub, which may fail, and find_matching_events up
\* to its loop
FindStart ==
    /\ pc = "filtered"
    /\ cli.delete
    /\ \E hub_ok \in BOOLEAN :
          IF ~hub_ok THEN Finish("Err") /\ UNCHANGED matches
          ELSE IF Len(events) = 0
          THEN matches' = <<>> /\ pc' = "matched" /\ outcome' = outcome
          ELSE IF time_max_panics(events) THEN Finish("Panic") /\ UNCHANGED matches
          ELSE pc' = "fetching" /\ outcome' = outcome /\ UNCHANGED matches
    /\ page_token' = None
    /\ all_gcal_events' = <<>>
    /\ fetch_log' = <<>>
    /\ UNCHANGED <<cli, rows, all_events, events, coda_token, insert_calls, delete_calls>>

\* a list request that asks for the first page whatever the page_token
ListRequest_first_page ==
    [time_min |-> time_min(events), time_max |-> time_max(events), page_token |-> None]

\* the list request of one turn of the loop
ListRequest == [time_min |-> time_min(events), time_max |-> time_max(events),
                page_token |-> page_token]

\* fetch_log records the first MaxPages list requests, each with the page
\* that answered it once it has one
LogRequest(log, request) ==
    IF Len(log) < MaxPages THEN Append(log, [request |-> request, page |-> None]) ELSE log

LogPage(log, page) ==
    IF Len(log) > 0 /\ IsNone(log[Len(log)].page)
    THEN [log EXCEPT ![Len(log)].page = Some(page)]
    ELSE log

\* one turn of the loop of find_matching_events, up to the await: the list
\* request with the current page_token is sent
SendListRequest ==
    /\ pc = "fetching"
    /\ pc' = "listing"
    /\ fetch_log' = LogRequest(fetch_log, ListRequest)
    /\ UNCHANGED <<cli, rows, all_events, events, coda_token, page_token,
                   all_gcal_events, matches, insert_calls, delete_calls, outcome>>

\* the rest of the turn: the request fails, or returns a page (items may be
\* absent) of events from the pool and maybe one of the tokens for the next page
FetchPage(pool, tokens) ==
    /\ pc = "listing"
    /\ \/ /\ Finish("Err")
          /\ UNCHANGED <<all_gcal_events, page_token, fetch_log>>
       \/ \E items \in {None} \cup {Some(p) : p \in SeqsUpTo(pool, MaxPageItems)},
             next \in tokens :
             /\ Len(all_gcal_events) + Len(unwrap_or(items, <<>>)) <= MaxRemote
             /\ all_gcal_events' = all_gcal_events \o unwrap_or(items, <<>>)
             /\ page_token' = next
             /\ fetch_log' = LogPage(fetch_log, [items |-> items, next_page_token |-> next])
             /\ pc' = IF IsNone(next) THEN "fetched" ELSE "fetching"
             /\ outcome' = outcome
    /\ UNCHANGED <<cli, rows, all_events, events, coda_token, matches,
                   insert_calls, delete_calls>>

\* the matching loops of find_matching_events
MatchEvents ==
    /\ pc = "fetched"
    /\ matches' = MatchAll(events, all_gcal_events)
    /\ pc' = "matched"
    /\ UNCHANGED <<cli, rows, all_events, events, coda_token, page_token,
                   all_gcal_events, fetch_log, insert_calls, delete_calls, outcome>>

\* --delete --dry-run: the matches are printed
PreviewDelete ==
    /\ pc = "matched"
    /\ cli.dry_run
    /\ Finish("Ok")
    /\ UNCHANGED <<cli, rows, all_events, events, coda_token, page_token,
                   all_gcal_events, fetch_log, matches, insert_calls, delete_calls>>

\* event_ids: the id of every match, in order
event_ids == [i \in 1..Len(matches) |-> matches[i][2].id]

\* delete_events: the delete call of one turn, for the id after those already
\* passed; deleted counts the calls that succeeded so far
DeleteCall(calls, ids, ok) ==
    Append(calls, [id |-> ids[Len(calls) + 1], ok |-> ok,
                   deleted |-> (IF Len(calls) = 0 THEN 0 ELSE calls[Len(calls)].deleted)
                               + (IF ok THEN 1 ELSE 0)])

\* a loop that goes on to the next id after a delete call failed
DeleteContinues_after_failure(calls, ids) == Len(calls) < Len(ids)

\* delete_events: the loop takes another turn when the call succeeded (a
\* failure leaves through ?) and an id is left
DeleteContinues(calls, ids) == calls[Len(calls)].ok /\ Len(calls) < Len(ids)

\* delete_events: what it returns after its last call, Ok(deleted) or the error
DeleteResult(calls) ==
    IF calls[Len(calls)].ok THEN Ok(calls[Len(calls)].deleted) ELSE Err("delete")

\* delete_events: one turn of its loop, a delete call that succeeds or fails;
\* with no id at all it returns Ok(0) at once
delete_events_turn ==
    /\ IF Len(event_ids) = 0
       THEN Finish("Ok") /\ UNCHANGED delete_calls
       ELSE \E ok \in BOOLEAN :
            \E calls \in {DeleteCall(delete_calls, event_ids, ok)} :
              /\ delete_calls' = calls
              /\ IF DeleteContinues(calls, event_ids)
                 THEN pc' = pc /\ outcome' = outcome
                 ELSE Finish(IF DeleteResult(calls).ok THEN "Ok" ELSE "Err")
    /\ UNCHANGED <<cli, rows, all_events, events, coda_token, page_token,
                   all_gcal_events, fetch_log, matches, insert_calls>>

\* a delete run that does not look at --dry-run
DeleteEvent_ignoring_dry_run == pc = "matched" /\ delete_events_turn

\* --delete without --dry-run: event_ids is passed to delete_events
DeleteEvent == pc = "matched" /\ ~cli.dry_run /\ delete_events_turn

\* --dry-run without --delete: the events are printed
PreviewCreate ==
    /\ pc = "filtered"
    /\ ~cli.delete
    /\ cli.dry_run
    /\ Finish("Ok")
    /\ UNCHANGED <<cli, rows, all_events, events, coda_token, page_token,
                   all_gcal_events, fetch_log, matches, insert_calls, delete_calls>>

\* neither flag: create_calendar_hub, which may fail, then create_events
CreateStart ==
    /\ pc = "filtered"
    /\ ~cli.delete
    /\ ~cli.dry_run
    /\ \E hub_ok \in BOOLEAN :
          IF ~hub_ok THEN Finish("Err")
          ELSE IF Len(events) = 0 THEN Finish("Ok")
          ELSE pc' = "creating" /\ outcome' = outcome
    /\ UNCHANGED <<cli, rows, all_events, events, coda_token, page_token,
                   all_gcal_events, fetch_log, matches, insert_calls, delete_calls>>

\* create_events: one turn of its loop, the event converted, the crate
\* under one of its rules, and an insert call that succeeds or fails
CreateEvent ==
    /\ pc = "creating"
    /\ \E rule \in LocalResultRules :
       LET event == events[Len(insert_calls) + 1]
           google_event == convert_to_google_event(rule, event)
       IN  IF IsNone(google_event)
           THEN Finish("Panic") /\ UNCHANGED insert_calls
           ELSE \E ok \in BOOLEAN :
                  /\ insert_calls' = Append(insert_calls,
                                            [event |-> google_event[1], ok |-> ok])
                  /\ IF ~ok THEN Finish("Err")
                     ELSE IF Len(insert_calls) + 1 = Len(events) THEN Finish("Ok")
                     ELSE pc' = pc /\ outcome' = outcome
    /\ UNCHANGED <<cli, rows, all_events, events, coda_token, page_token,
                   all_gcal_events, fetch_log, matches, delete_calls>>

----------------------------------------------------------------------------
(* Specifications *)

\* the state before main has read anything
Blank ==
    /\ rows = <<>>
    /\ all_events = <<>>
    /\ coda_token = None
    /\ page_token = None
    /\ all_gcal_events = <<>>
    /\ fetch_log = <<>>
    /\ matches = <<>>
    /\ insert_calls = <<>>
    /\ delete_calls = <<>>
    /\ outcome = ""

\* A whole run of Import or CodaImport, over a few rows and remote events
RunCsvPool == {CsvAllDay, CsvBadDate}

\* a performance on the last evening of the last year there is
CodaLastNight ==
    [Display |-> JsonString(Str(<<"E","n","d">>)),
      performanceDate |-> JsonString(Str(<<"+","2","6","2","1","4","2","-","1","2","-","3","1","T","2","3",":","3","0",":","0","0">>)),
      Organization |-> JsonAbsent, Purchased |-> JsonAbsent,
      venue |-> JsonAbsent, kenticoUrl |-> JsonAbsent,
      artists |-> JsonAbsent, works |-> JsonAbsent]

RunCodaPool == {CodaTimed, CodaNoDisplay, CodaLastNight}

\* the remote calendar of a whole run: the gala of the CSV file and the gala
\* of the Coda table, as all-day events
RemoteGalaJanuary ==
    Event(Some("a"), Some(Str(<<"g","a","l","a">>)), None, None,
          Some(EventDateTime(Some(Date(2024, 1, 15)), None, None)),
          Some(EventDateTime(Some(Date(2024, 1, 16)), None, None)))

RemoteGalaJuly ==
    Event(Some("b"), Some(Str(<<"G","A","L","A">>)), None, None,
          Some(EventDateTime(Some(Date(2024, 7, 17)), None, None)),
          Some(EventDateTime(Some(Date(2024, 7, 18)), None, None)))

RunRemotePool == {RemoteGalaJanuary, RemoteGalaJuly}

RunTokenPool == {None}

Init ==
    /\ pc = "start"
    /\ cli \in {Cli(c, n, st, sd, ed, p, d) :
                   c \in {"Import", "CodaImport"}, n \in BOOLEAN, st \in BOOLEAN,
                   sd \in {None, Some(Date(2024, 1, 15))},
                   ed \in {None, Some(Date(2024, 7, 17))},
                   p \in BOOLEAN, d \in BOOLEAN}
    /\ events = <<>>
    /\ Blank

Next ==
    \/ ParseCsv(RunCsvPool)
    \/ CodaStart
    \/ FetchCodaPage(RunCodaPool)
    \/ FilterEvents
    \/ FindStart
    \/ SendListRequest
    \/ FetchPage(RunRemotePool, RunTokenPool)
    \/ MatchEvents
    \/ PreviewDelete
    \/ DeleteEvent
    \/ PreviewCreate
    \/ CreateStart
    \/ CreateEvent

Spec == Init /\ [][Next]_vars

\* The record mappers alone: every file and every table over the row pools
InitMap ==
    /\ pc = "start"
    /\ cli \in {Cli(c, FALSE, FALSE, None, None, FALSE, FALSE) :
                   c \in {"Import", "CodaImport"}}
    /\ events = <<>>
    /\ Blank

NextMap ==
    \/ ParseCsv(CsvLinePool)
    \/ CodaStart
    \/ FetchCodaPage(CodaRowPool)

SpecMap == InitMap /\ [][NextMap]_vars

\* filter_events alone: every list over the event pool, every pair of bounds
InitFilter ==
    /\ pc = "parsed"
    /\ cli \in {Cli("Import", FALSE, FALSE, sd, ed, p, FALSE) :
                   sd \in StartBoundPool, ed \in EndBoundPool, p \in BOOLEAN}
    /\ rows = <<>>
    /\ all_events \in SeqsUpTo(FilterEventPool, MaxEvents)
    /\ events = <<>>
    /\ coda_token = None
    /\ page_token = None
    /\ all_gcal_events = <<>>
    /\ fetch_log = <<>>
    /\ matches = <<>>
    /\ insert_calls = <<>>
    /\ delete_calls = <<>>
    /\ outcome = ""

NextFilter == FilterEvents

SpecFilter == InitFilter /\ [][NextFilter]_vars

\* create_events on one event: every event of the projection pool
InitProject ==
    /\ pc = "creating"
    /\ cli = Cli("Import", FALSE, FALSE, None, None, FALSE, FALSE)
    /\ rows = <<>>
    /\ all_events = <<>>
    /\ events \in {<<e>> : e \in ProjectEventPool}
    /\ coda_token = None
    /\ page_token = None
    /\ all_gcal_events = <<>>
    /\ fetch_log = <<>>
    /\ matches = <<>>
    /\ insert_calls = <<>>
    /\ delete_calls = <<>>
    /\ outcome = ""

NextProject == CreateEvent

SpecProject == InitProject /\ [][NextProject]_vars

\* find_matching_events alone: every list of local events, every listing
\* of one page
InitMatch ==
    /\ pc = "filtered"
    /\ cli = Cli("Import", FALSE, FALSE, None, None, FALSE, TRUE)
    /\ events \in SeqsUpTo(LocalEventPool, MaxLocal)
    /\ Blank

MatchTokenPool == {None}

NextMatch ==
    \/ FindStart
    \/ SendListRequest
    \/ FetchPage(RemoteEventPool, MatchTokenPool)
    \/ MatchEvents

SpecMatch == InitMatch /\ [][NextMatch]_vars

\* The loop of find_matching_events alone: every listing, of any number of
\* pages, with any token after each page
InitFetch ==
    /\ pc = "filtered"
    /\ cli = Cli("Import", FALSE, FALSE, None, None, FALSE, TRUE)
    /\ events \in {<<>>, <<LocalGala>>, <<LocalGalaNextDay, LocalGala>>}
    /\ Blank

NextFetch ==
    \/ FindStart
    \/ SendListRequest
    \/ FetchPage(PagedEventPool, TokenPool)
    \/ MatchEvents

SpecFetch == InitFetch /\ [][NextFetch]_vars

\* the same, with the loop taking its next turn whenever it can: the request
\* is sent, it returns, and the loop goes on
FairSpecFetch ==
    SpecFetch /\ WF_vars(SendListRequest) /\ WF_vars(FetchPage(PagedEventPool, TokenPool))


----------------------------------------------------------------------------
(* Properties of find_matching_events *)

\* a remote event r has the title of the local event l, whatever the case,
\* and starts on l's start_date
SameTitleAndDate(l, r) ==
    /\ to_lowercase(gcal_title(r)) = to_lowercase(l.title)
    /\ extract_event_date(r) = Some(l.start_date)

\* the places (i, j) of the local and the fetched remote events that go together
PlacesMatching(needs_id) ==
    {ij \in (1..Len(events)) \X (1..Len(all_gcal_events)) :
        /\ SameTitleAndDate(events[ij[1]], all_gcal_events[ij[2]])
        /\ needs_id => IsSome(all_gcal_events[ij[2]].id)}

\* the local event at place i with the remote event at place j, as the pair
\* matches holds for them: the remote event's id when it has one
PairAt(ij) ==
    LET r == all_gcal_events[ij[2]]
    IN  <<events[ij[1]],
          [id |-> r.id, title |-> gcal_title(r), date |-> extract_event_date(r)[1],
           location |-> r.location]>>

\* the pair at place k of matches, with its id as an Option
MatchAt(k) ==
    <<matches[k][1], [matches[k][2] EXCEPT !.id = Some(matches[k][2].id)]>>

\* matches holds one pair for each of the places, and nothing else: every
\* pair is there as many times as there are places that give it
OnePairPerPlace(places) ==
    /\ Len(matches) = Cardinality(places)
    /\ \A k \in 1..Len(matches) : \E ij \in places : PairAt(ij) = MatchAt(k)
    /\ \A ij \in places :
          Cardinality({k \in 1..Len(matches) : MatchAt(k) = PairAt(ij)})
              = Cardinality({p \in places : PairAt(p) = PairAt(ij)})

\* C1 (as amended): when find_matching_events has returned, matches holds
\* exactly one pair (l, r) for every local event l and every fetched remote
\* event r that has an id, the same title as l whatever the case, and l's
\* start_date as its date, and no other pair; k such remote events give k pairs
C1_OnePairPerMatchWithId == pc = "matched" => OnePairPerPlace(PlacesMatching(TRUE))

\* C1 (as written): the same for every fetched remote event, with an id or not
C1_OnePairPerMatch == pc = "matched" => OnePairPerPlace(PlacesMatching(FALSE))

\* C1's case: a local event that goes with two remote events that have an
\* id, one of them written in another case, and with one that has none
C1_Witness ==
    /\ pc = "matched"
    /\ \E i \in 1..Len(events) :
          /\ Cardinality({ij \in PlacesMatching(TRUE) : ij[1] = i}) = 2
          /\ \E ij \in PlacesMatching(TRUE) :
                ij[1] = i /\ gcal_title(all_gcal_events[ij[2]]) # events[i].title
          /\ \E ij \in PlacesMatching(FALSE) \ PlacesMatching(TRUE) : ij[1] = i
    /\ Len(matches) >= 2


----------------------------------------------------------------------------
(* Properties of convert_to_google_event *)

\* the event create_events converts, and the wire event it inserts
Projected == events[1]

Wire == insert_calls[1].event

\* create_events has converted a timed event, or an all-day one
ProjectedTimed == pc = "done" /\ Len(events) = 1 /\ ~is_all_day(Projected)

ProjectedAllDay ==
    pc = "done" /\ Len(events) = 1 /\ is_all_day(Projected) /\ Len(insert_calls) = 1

\* the wall-clock time in Los Angeles at the instant t, for the years from
\* 2007 that the dates of the pools are in: daylight time runs from 10:00
\* UTC on the second Sunday of March to 09:00 UTC on the first Sunday of
\* November
PacificWallClock(t) ==
    LET y      == ShiftSeconds(t, 0 - PstToUtc)[1].date.y
        spring == and_time(NthSunday(y, 3, 2), Hms(10, 0, 0))
        fall   == and_time(NthSunday(y, 11, 1), Hms(9, 0, 0))
    IN  IF DateTimeLe(spring, t) /\ DateTimeLt(t, fall)
        THEN ShiftSeconds(t, 0 - PdtToUtc)[1]
        ELSE ShiftSeconds(t, 0 - PstToUtc)[1]

\* C2 (as written): create_events never panics on a timed event, whatever
\* its start and end wall-clock values: convert_to_google_event returns a
\* wire event for it
C2_TimedProjectionNeverFails == ProjectedTimed => outcome # "Panic"

\* the day before a date that is not the first of a month of January
DayBefore(dt) ==
    IF dt.d > 1 THEN Date(dt.y, dt.m, dt.d - 1)
    ELSE IF dt.m > 1 THEN Date(dt.y, dt.m - 1, DaysInMonth(dt.y, dt.m - 1))
    ELSE Date(dt.y - 1, 12, 31)

\* the wire start of an all-day event is its start_date as a bare date, and
\* the wire end is a bare date
BareDates ==
    /\ Wire.start = Some(EventDateTime(Some(Projected.start_date), None, None))
    /\ IsSome(Wire.end)
    /\ IsSome(Wire.end[1].date)
    /\ Wire.end[1].date_time = None
    /\ Wire.end[1].time_zone = None

\* C3 (as amended): for every all-day event the wire start is start_date as
\* a bare date and the wire end is a bare date; the day before the wire end
\* is end_date for every end_date but the last date there is, for which the
\* wire end is end_date itself
C3_AllDayEndIsNextDayButLast ==
    ProjectedAllDay =>
        /\ BareDates
        /\ IF Projected.end_date = MaxDate
           THEN Wire.end[1].date[1] = Projected.end_date
           ELSE /\ Wire.end[1].date[1] # Projected.end_date
                /\ DayBefore(Wire.end[1].date[1]) = Projected.end_date

\* C3 (as written): the same, with the day before the wire end equal to
\* end_date for every end_date
C3_AllDayEndIsNextDay ==
    ProjectedAllDay =>
        /\ BareDates
        /\ Wire.end[1].date[1] # Projected.end_date
        /\ DayBefore(Wire.end[1].date[1]) = Projected.end_date

\* C3's case: an all-day event that ends on the last day of a year, and
\* whose wire end is the first day of the next year
C3_Witness ==
    /\ ProjectedAllDay
    /\ Projected.end_date = Date(2024, 12, 31)
    /\ Wire.end = Some(EventDateTime(Some(Date(2025, 1, 1)), None, None))


----------------------------------------------------------------------------
(* Properties of the record mappers *)

\* the events of the results that are Ok, in order
RECURSIVE EventsOfOk(_)
EventsOfOk(results) ==
    IF Len(results) = 0 THEN <<>>
    ELSE (IF results[1].ok THEN <<results[1].v>> ELSE <<>>) \o EventsOfOk(Tail(results))

\* the events of the rows that map, in row order, given what one row maps to
EventsOfRowsThatMap(list, Mapped(_)) ==
    EventsOfOk([i \in 1..Len(list) |-> Mapped(list[i])])

\* what a line of a CSV file maps to
MappedCsvLine(line) ==
    IF line.well_formed THEN parse_record(CsvRecord(line)) ELSE Err("Failed to parse row")

\* the source has been read to its end: the file, or the last page of the table
SourceRead ==
    \/ cli.command = "Import" /\ pc # "start"
    \/ cli.command = "CodaImport" /\ pc = "parsed"

\* C5 (as written): once the source has been read, the events are one for
\* each row that maps, in row order, however many other rows fail; for the
\* lines of a CSV file and for the rows of a Coda table
C5_FailingRowsAreSkipped ==
    SourceRead =>
        all_events = IF cli.command = "Import"
                     THEN EventsOfRowsThatMap(rows, MappedCsvLine)
                     ELSE EventsOfRowsThatMap(rows, parse_coda_row)

\* C6 (as written): every event a record mapper has produced has start_time
\* and end_time both present or both absent
C6_TimesBothOrNeither ==
    \A i \in 1..Len(all_events) :
        IsSome(all_events[i].start_time) <=> IsSome(all_events[i].end_time)


\* C13 (as written): every event a record mapper has produced has a title
\* that is not empty after trimming; a row whose title is absent, empty or
\* blank is rejected and yields no event
C13_TitleNeverBlank ==
    \A i \in 1..Len(all_events) : Len(trim(all_events[i].title)) > 0


\* a parsed date and time as a reading of a performanceDate, or None
TimedReading(r) == IF IsSome(r) THEN Timed(r) ELSE None

\* the reading of s by the k-th kind of format, or None when this kind does
\* not accept s: 1 with an offset, 2 date "T" time, 3 date " " time, 4 slash
\* date and 12-hour time with AM or PM, 5 ISO date, 6 month-first slash
\* date, 7 day-first slash date
Reading(k, s) ==
    CASE k = 1 -> Let(parse_from_rfc3339(s),
                      LAMBDA a : IF IsSome(a) THEN Timed(a)
                                 ELSE TimedReading(DateTime_parse_from_str(s, OffsetFormat)))
      [] k = 2 -> TimedReading(FirstDateTime(s, SubSeq(CodaDateTimeFormats, 1, 3)))
      [] k = 3 -> TimedReading(FirstDateTime(s, SubSeq(CodaDateTimeFormats, 4, 5)))
      [] k = 4 -> TimedReading(FirstDateTime(s, SubSeq(CodaDateTimeFormats, 6, 7)))
      [] k = 5 -> DateOnly(NaiveDate_parse_from_str(s, <<"%Y", "-", "%m", "-", "%d">>))
      [] k = 6 -> DateOnly(NaiveDate_parse_from_str(s, <<"%m", "/", "%d", "/", "%Y">>))
      [] k = 7 -> DateOnly(NaiveDate_parse_from_str(s, <<"%d", "/", "%m", "/", "%Y">>))

\* the reading of the first kind, in that order, that accepts s; None when
\* no kind does
FirstAccepted(readings) ==
    IF \A k \in 1..7 : IsNone(readings[k]) THEN None
    ELSE readings[CHOOSE k \in 1..7 :
                      IsSome(readings[k]) /\ \A j \in 1..(k - 1) : IsNone(readings[j])]

FirstReading(s) ==
    Let(<<Reading(1, s), Reading(2, s), Reading(3, s), Reading(4, s),
          Reading(5, s), Reading(6, s), Reading(7, s)>>, FirstAccepted)

\* the rows of the table read so far that have a title and a performanceDate
HasTitleAndDate(r) ==
    IsSome(get_string_value(r, "Display")) /\ IsSome(get_string_value(r, "performanceDate"))

\* the first readings of the trimmed performanceDate of those rows, in row
\* order, without the rows that no kind of format accepts
RowReadings ==
    Let(SelectSeq(rows, HasTitleAndDate),
        LAMBDA dated :
            SelectSeq([i \in 1..Len(dated) |->
                          FirstReading(trim(get_string_value(dated[i], "performanceDate")[1]))],
                      IsSome))

\* C14: parse_coda_datetime trims its input and returns the reading of the
\* first kind of format that accepts it, in the order with an offset, "T"
\* separated, space separated, 12-hour with AM or PM, ISO date, month-first
\* slash date, day-first slash date; it fails only when no kind accepts, so
\* the events of a table carry, row by row, those first readings
C14_FirstAcceptingFormat ==
    cli.command = "CodaImport" =>
        Let(RowReadings,
            LAMBDA readings :
                /\ Len(all_events) = Len(readings)
                /\ \A k \in 1..Len(all_events) :
                      /\ all_events[k].start_date = readings[k][1].date
                      /\ all_events[k].start_time = readings[k][1].time)

\* a table read to its end with the slash date " 01/02/2024 ", which both
\* slash kinds accept, read month first after trimming, and "13/02/2024",
\* which only the day-first kind accepts
C14_Witness ==
    /\ cli.command = "CodaImport" /\ pc = "parsed"
    /\ rows = <<CodaSlash, CodaBadDate, CodaBlankDisplay>>
    /\ Len(all_events) = 2
    /\ all_events[1].start_date = Date(2024, 1, 2) /\ all_events[1].start_time = None
    /\ all_events[2].start_date = Date(2024, 2, 13)
    /\ IsSome(Reading(6, trim(CodaSlash.performanceDate.text)))
    /\ IsSome(Reading(7, trim(CodaSlash.performanceDate.text)))
    /\ Reading(6, trim(CodaSlash.performanceDate.text))
          # Reading(7, trim(CodaSlash.performanceDate.text))


\* C15 (as written): every event a record mapper has produced ends on its
\* start date or later
C15_EndNotBeforeStart ==
    \A i \in 1..Len(all_events) :
        DateLe(all_events[i].start_date, all_events[i].end_date)


\* a row that has a title and a performanceDate that parse_coda_datetime reads
ReadsAsEvent(r) ==
    /\ HasTitleAndDate(r)
    /\ IsSome(parse_coda_datetime(get_string_value(r, "performanceDate")[1]))

\* the start of the k-th row of a list of such rows
StartOfRow(r) == parse_coda_datetime(get_string_value(r, "performanceDate")[1])[1]

\* the event satisfies the rule for the end of an event of a Coda row: it
\* ends on its start date; with a start time its end time is the time of day
\* 150 minutes later, modulo 24 hours; with no start time it has no end time
EndsAfter150Minutes(e) ==
    /\ e.end_date = e.start_date
    /\ IF IsSome(e.start_time)
       THEN /\ IsSome(e.end_time)
            /\ e.end_time[1].secs \in 0..(24 * 3600 - 1)
            /\ (e.end_time[1].secs - e.start_time[1].secs - 150 * 60) % (24 * 3600) = 0
            /\ e.end_time[1].frac = e.start_time[1].frac % NanosPerSecond
       ELSE IsNone(e.end_time)

\* C16 (as written): every row of a Coda table that has a title and a
\* performanceDate that is read yields an event, with the start that was
\* read, that ends on its start date and, when the row has a start time, 150
\* minutes after it modulo 24 hours, in every case
C16_CodaEndIsStartPlus150 ==
    cli.command = "CodaImport" =>
        Let(SelectSeq(rows, ReadsAsEvent),
            LAMBDA read :
                /\ Len(all_events) = Len(read)
                /\ \A k \in 1..Len(all_events) :
                      /\ all_events[k].start_date = StartOfRow(read[k]).date
                      /\ all_events[k].start_time = StartOfRow(read[k]).time
                      /\ EndsAfter150Minutes(all_events[k]))


----------------------------------------------------------------------------
(* Properties of the paged fetch of find_matching_events *)

\* the items of the pages that answered the recorded requests, in the order
\* of the requests
RECURSIVE ItemsOfPages(_)
ItemsOfPages(log) ==
    IF Len(log) = 0 THEN <<>>
    ELSE (IF IsSome(log[1].page) THEN unwrap_or(log[1].page[1].items, <<>>) ELSE <<>>)
         \o ItemsOfPages(Tail(log))

\* the token that came with the page answering the request at place i
TokenAfter(i) == fetch_log[i].page[1].next_page_token

\* every request but the last recorded has been answered
Answered(i) == IsSome(fetch_log[i].page)

\* the fetch has stopped with the pages it has: the loop is left
FetchStopped == pc \in {"fetched", "matched"}

\* C7: the first list request carries no token; a request follows a page
\* exactly when the page came with a token, and carries that token, so that
\* a first page without a token is the answer to the only request; the fetch
\* stops when and only when a page comes without a token; and the
\* accumulated remote events are the items of the pages in the order fetched
C7_FetchStopsWhenNoToken ==
    /\ Len(fetch_log) > 0 => fetch_log[1].request.page_token = None
    /\ \A i \in 1..(Len(fetch_log) - 1) :
          /\ Answered(i)
          /\ IsSome(TokenAfter(i))
          /\ fetch_log[i + 1].request.page_token = TokenAfter(i)
    /\ \A i \in 1..Len(fetch_log) :
          Answered(i) /\ IsNone(TokenAfter(i)) => i = Len(fetch_log) /\ FetchStopped
    /\ FetchStopped => page_token = None
    /\ pc = "fetching" /\ Len(fetch_log) > 0 => IsSome(page_token)
    /\ pc = "fetching" /\ Len(fetch_log) \in 1..(MaxPages - 1) =>
          /\ Answered(Len(fetch_log))
          /\ TokenAfter(Len(fetch_log)) = page_token
    /\ Len(fetch_log) < MaxPages => all_gcal_events = ItemsOfPages(fetch_log)
    /\ Len(all_gcal_events) >= Len(ItemsOfPages(fetch_log))
    /\ SubSeq(all_gcal_events, 1, Len(ItemsOfPages(fetch_log))) = ItemsOfPages(fetch_log)

\* C7's case: a fetch of two pages that has stopped; the first page came
\* with a token, which the second request carried, the second came without
\* one, and both had items
C7_Witness ==
    /\ pc = "fetched"
    /\ Len(fetch_log) = 2
    /\ TokenAfter(1) = Some("t2")
    /\ fetch_log[2].request.page_token = Some("t2")
    /\ TokenAfter(2) = None
    /\ fetch_log[1].page[1].items = Some(<<RemoteBlank>>)
    /\ fetch_log[2].page[1].items = Some(<<RemoteGalaLower>>)
    /\ all_gcal_events = <<RemoteBlank, RemoteGalaLower>>

\* find_matching_events has returned, with the matches or with an error
FindReturned == pc \in {"matched", "done"}

\* C8 (as written): if from some page on the source returns the same token
\* with every page, find_matching_events still returns
C8_RepeatedTokenTerminates ==
    <>[](page_token = Some("t1")) => <>FindReturned


\* midnight UTC of a date
Midnight(d) == and_time(d, Hms(0, 0, 0))

\* the midnights of the start dates of the local events
LocalMidnights == {Midnight(events[i].start_date) : i \in 1..Len(events)}

\* C17: every list request of a pass over a non-empty list of local events
\* asks for the same window, from midnight of the least local start_date to
\* midnight of the day after the greatest, the upper bound excluded, so that
\* the midnight of every local start_date is inside; for an empty list no
\* request is sent and the result is empty
C17_OneWindowForEveryRequest ==
    /\ \A i \in 1..Len(fetch_log) :
          /\ fetch_log[i].request.time_min \in LocalMidnights
          /\ ShiftSeconds(fetch_log[i].request.time_max, 0 - SecondsPerDay)[1] \in LocalMidnights
          /\ \A t \in LocalMidnights :
                /\ DateTimeLe(fetch_log[i].request.time_min, t)
                /\ DateTimeLt(t, fetch_log[i].request.time_max)
    /\ events = <<>> => fetch_log = <<>> /\ matches = <<>>

\* two requests sent for local events on 2 March and 1 March 2024, in that
\* order: both ask for 1 March 00:00 to 3 March 00:00 UTC
C17_Witness ==
    /\ events = <<LocalGalaNextDay, LocalGala>>
    /\ Len(fetch_log) = 2
    /\ fetch_log[1].request.page_token # fetch_log[2].request.page_token
    /\ \A i \in 1..2 : /\ fetch_log[i].request.time_min = Midnight(Date(2024, 3, 1))
                       /\ fetch_log[i].request.time_max = Midnight(Date(2024, 3, 3))


----------------------------------------------------------------------------
(* Properties of filter_events *)

\* the event is inside the bounds of the command line, the bounds included,
\* by its start_date, and purchased when only purchased events are asked for
InsideBounds(e) ==
    /\ IsNone(cli.start_date) \/ DateLe(cli.start_date[1], e.start_date)
    /\ IsNone(cli.end_date) \/ DateLe(e.start_date, cli.end_date[1])
    /\ ~cli.purchased \/ e.purchased

\* the places of the input events that are inside the bounds
PlacesInside == {i \in 1..Len(all_events) : InsideBounds(all_events[i])}

\* C9: the output of filter_events holds the input events that are inside
\* the bounds (bounds included, by start_date alone, purchased if asked),
\* each once and unchanged, and nothing else
C9_KeepsExactlyInsideBounds ==
    pc = "filtered" =>
        /\ Len(events) = Cardinality(PlacesInside)
        /\ \E f \in [1..Len(events) -> PlacesInside] :
              /\ \A k, l \in 1..Len(events) : f[k] = f[l] => k = l
              /\ \A k \in 1..Len(events) : events[k] = all_events[f[k]]

\* C9's case: with both bounds given, an event on the start bound and one on
\* the end bound that ends after it are kept, and one that starts before the
\* start bound and ends inside the bounds is not
C9_Witness ==
    /\ pc = "filtered"
    /\ cli.start_date = Some(Date(2024, 1, 10))
    /\ cli.end_date = Some(Date(2024, 1, 31))
    /\ all_events = <<FilterG, FilterA, FilterF>>
    /\ events = <<FilterF, FilterG>>

\* the order of the output: by start_date, then by start_time with no time
\* before any time
Earlier(a, b) ==
    \/ DateLe(a.start_date, b.start_date) /\ a.start_date # b.start_date
    \/ /\ a.start_date = b.start_date
       /\ \/ a.start_time = None /\ b.start_time # None
          \/ a.start_time # None /\ b.start_time # None
             /\ TimeLt(a.start_time[1], b.start_time[1])

\* the events of the list that start on the date and at the time of e
StartingWith(list, e) ==
    LET same(x) == x.start_date = e.start_date /\ x.start_time = e.start_time
    IN  SelectSeq(list, same)

\* the events of the list that are in the output
InOutput(list) ==
    LET there(x) == \E k \in 1..Len(events) : events[k] = x
    IN  SelectSeq(list, there)

\* C10: the output of filter_events is in ascending order of start_date and
\* then start_time, no time before any time, and the events that start on
\* the same date at the same time are in the order they had in the input
C10_SortedAndStable ==
    pc = "filtered" =>
        /\ \A i, j \in 1..Len(events) : i < j => ~Earlier(events[j], events[i])
        /\ \A k \in 1..Len(events) :
              StartingWith(events, events[k]) = StartingWith(InOutput(all_events), events[k])

\* C10's case: two different events at 09:00 of a day and then an all-day
\* event of that day come out with the all-day event first and the two
\* others in the order they came in
C10_Witness ==
    /\ pc = "filtered"
    /\ all_events = <<FilterD, FilterC, FilterB>>
    /\ events = <<FilterB, FilterD, FilterC>>


----------------------------------------------------------------------------
(* Properties of extract_event_date *)

\* the date of a remote event as a calendar shows it: its date-only start,
\* or else the date in Los Angeles of its start instant
LocalDateOf(r) ==
    IF IsNone(r.start) THEN None
    ELSE IF IsSome(r.start[1].date) THEN r.start[1].date
    ELSE IF IsSome(r.start[1].date_time)
    THEN Some(date_naive(PacificWallClock(r.start[1].date_time[1])))
    ELSE None

\* the places (i, j) of a local event and a fetched remote event with an id
\* that have the same title and whose dates, the remote one as a calendar
\* shows it, are the same
PlacesMatchingLocally ==
    {ij \in (1..Len(events)) \X (1..Len(all_gcal_events)) :
        /\ to_lowercase(gcal_title(all_gcal_events[ij[2]])) = to_lowercase(events[ij[1]].title)
        /\ LocalDateOf(all_gcal_events[ij[2]]) = Some(events[ij[1]].start_date)
        /\ IsSome(all_gcal_events[ij[2]].id)}

\* C11 (as written): when find_matching_events has returned, a remote event
\* with an id is paired with a local event of the same title exactly when
\* its date-only start, or else the local date of its start instant, is the
\* local event's start_date, and that date is the date of the pair
C11_RemoteDateIsLocalDate ==
    pc = "matched" =>
        /\ Len(matches) = Cardinality(PlacesMatchingLocally)
        /\ \A ij \in PlacesMatchingLocally :
              \E k \in 1..Len(matches) :
                 /\ matches[k][1] = events[ij[1]]
                 /\ matches[k][2].id = all_gcal_events[ij[2]].id[1]
                 /\ matches[k][2].date = events[ij[1]].start_date


----------------------------------------------------------------------------
(* Properties of a whole run *)

\* C12: with --dry-run set, a run of Import or CodaImport issues no insert
\* call and no delete call, whatever --delete, --stats, --purchased and the
\* date bounds are; it may still list the remote events.
C12_DryRunIssuesNoCall ==
    cli.dry_run => insert_calls = <<>> /\ delete_calls = <<>>

\* a dry run of --delete with --stats that listed the remote events, paired
\* one and returned Ok
C12_Witness ==
    /\ cli.dry_run /\ cli.delete /\ cli.stats
    /\ pc = "done" /\ outcome = "Ok"
    /\ Len(fetch_log) >= 1
    /\ Len(matches) >= 1
    /\ insert_calls = <<>> /\ delete_calls = <<>>


\* no two places of the remote listing hold the same id
RemoteIdsDistinct ==
    \A i, j \in 1..Len(all_gcal_events) :
        (i # j /\ IsSome(all_gcal_events[i].id))
            => all_gcal_events[i].id # all_gcal_events[j].id

\* C19 (as written): in a run with --delete and without --dry-run over a
\* remote listing in which every id occurs once, no id is passed to the
\* delete call more than once, whatever the local events are, two local
\* events with the same lower-cased title and start_date included
C19_NoIdDeletedTwice ==
    RemoteIdsDistinct =>
        \A i, j \in 1..Len(delete_calls) :
            i # j => delete_calls[i].id # delete_calls[j].id


----------------------------------------------------------------------------
(* Properties of delete_events *)

\* find_matching_events and delete_events: every list of local events, every
\* listing of one page, every outcome of every delete call
NextDelete ==
    \/ NextMatch
    \/ DeleteEvent

SpecDelete == InitMatch /\ [][NextDelete]_vars

\* delete_events has returned: the run ended after find_matching_events
\* returned the matches
DeleteReturned == pc = "done" /\ Len(fetch_log) > 0 /\ IsSome(fetch_log[Len(fetch_log)].page)

\* the number of the first k delete calls that succeeded
Succeeded(k) == Cardinality({i \in 1..k : delete_calls[i].ok})

\* C20: delete_events passes the ids to the delete call one by one in list
\* order; no call follows a call that failed; it returns as soon as a call
\* fails, with the error, and otherwise after the last id, with the number of
\* ids; the calls before a failure are not undone
C20_DeleteStopsAtFirstFailure ==
    /\ Len(delete_calls) <= Len(event_ids)
    /\ \A k \in 1..Len(delete_calls) :
          /\ delete_calls[k].id = event_ids[k]
          /\ delete_calls[k].deleted = Succeeded(k)
          /\ k < Len(delete_calls) => delete_calls[k].ok
    /\ Len(delete_calls) > 0 =>
          /\ ~delete_calls[Len(delete_calls)].ok => pc = "done" /\ outcome = "Err"
          /\ (delete_calls[Len(delete_calls)].ok /\ Len(delete_calls) = Len(event_ids))
                => /\ pc = "done" /\ outcome = "Ok"
                   /\ delete_calls[Len(delete_calls)].deleted = Len(event_ids)
          /\ (delete_calls[Len(delete_calls)].ok /\ Len(delete_calls) < Len(event_ids))
                => pc = "matched"
    /\ (DeleteReturned /\ outcome = "Ok") => Len(delete_calls) = Len(event_ids)

\* three ids to delete: the first call succeeded, the second failed, and
\* delete_events returned the error without a call for the third
C20_Witness ==
    /\ pc = "done" /\ outcome = "Err"
    /\ Len(event_ids) = 3
    /\ event_ids[1] # event_ids[2]
    /\ Len(delete_calls) = 2
    /\ delete_calls[1].ok /\ ~delete_calls[2].ok
    /\ delete_calls[2].deleted = 1


----------------------------------------------------------------------------
(* The round trip: a run that creates the events, then a run with --delete
   over the same events *)

\* a timed event in the morning, Pacific time
LocalMatinee ==
    CalendarEvent(Str(<<"M","a","t","i","n","e","e">>), None, None, None, FALSE,
                  Date(2024, 3, 1), Some(Hms(10, 0, 0)), Date(2024, 3, 1), Some(Hms(12, 30, 0)))

RoundTripEventPool == {LocalGala, LocalOpera, LocalMatinee}

\* the event of the i-th insert call as the remote calendar keeps it:
\* unchanged, with the id the calendar gave it
Stored(i) == [insert_calls[i].event EXCEPT !.id = Some(ToString(i))]

\* the events the remote calendar holds after the run that created them
StoredEvents == {Stored(i) : i \in {j \in 1..Len(insert_calls) : insert_calls[j].ok}}

\* the same command line and the same events again, now with --delete
DeleteAgain ==
    /\ pc = "done"
    /\ outcome = "Ok"
    /\ ~cli.delete
    /\ cli' = [cli EXCEPT !.delete = TRUE]
    /\ pc' = "filtered"
    /\ UNCHANGED <<rows, all_events, events, coda_token, page_token, all_gcal_events,
                   fetch_log, matches, insert_calls, delete_calls, outcome>>

InitRoundTrip ==
    /\ pc = "filtered"
    /\ cli = Cli("Import", FALSE, FALSE, None, None, FALSE, FALSE)
    /\ events \in SeqsUpTo(RoundTripEventPool, MaxLocal)
    /\ Blank

NextRoundTrip ==
    \/ CreateStart
    \/ CreateEvent
    \/ DeleteAgain
    \/ FindStart
    \/ SendListRequest
    \/ FetchPage(StoredEvents, MatchTokenPool)
    \/ MatchEvents

SpecRoundTrip == InitRoundTrip /\ [][NextRoundTrip]_vars

\* the instant a remote event starts or ends at: its date_time, or midnight
\* UTC of its date
InstantOf(edt) ==
    IF IsSome(edt.date_time) THEN edt.date_time[1] ELSE Midnight(edt.date[1])

\* the remote event is inside the window of the request: it starts before
\* time_max and ends after time_min
InWindow(e, request) ==
    /\ DateTimeLt(InstantOf(e.start[1]), request.time_max)
    /\ DateTimeLt(request.time_min, InstantOf(e.end[1]))

\* the i-th local event is paired with the remote event created from it
PairedWithStored(i) ==
    \E k \in 1..Len(matches) :
        matches[k][1] = events[i] /\ matches[k][2].id = ToString(i)

\* C18 (as written): after a run created every local event and the remote
\* calendar kept them unchanged, find_matching_events over the same events
\* asks for a window that holds each created event, and pairs each created
\* event the listing returns with its local event
C18_CreatedEventsAreFoundAgain ==
    (cli.delete /\ pc = "matched" /\ Len(insert_calls) = Len(events)) =>
        \A i \in 1..Len(events) :
            /\ InWindow(Stored(i), fetch_log[1].request)
            /\ (\E j \in 1..Len(all_gcal_events) : all_gcal_events[j] = Stored(i))
                  => PairedWithStored(i)

====
